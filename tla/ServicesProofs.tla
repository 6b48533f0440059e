--------------------------- MODULE ServicesProofs ---------------------------
(***************************************************************************)
(* Proofs, for any features, readers, follow range and delays, of what the *)
(* parts of Services keep true.  Each part has its inductive invariant,    *)
(* shown for the steps of the part; since a behaviour of Services is that  *)
(* of one part, the invariants are lifted by a case on it.                 *)
(***************************************************************************)
EXTENDS Services, TLAPS

-----------------------------------------------------------------------------
(* FeatureCache: cached answers are the published ones.                    *)

\* Right answers do not last: they hold of what a reader found only as long as no
\* publisher came in between, which is what ~cacheRaced says of all readers at once.
Found(t) ==
    LET r == reader[t] IN
    /\ r.pc = "load" => r.at # Productivity
    /\ r.pc # "idle" => r.at = r.goal \/ (r.goal = Productivity /\ r.at \in {Basic, Pro})
    /\ r.pc \in {"store", "next"} => r.answer = Features!Answer(Features!Right(r.at))
    /\ r.pc # "idle" /\ r.goal = Productivity /\ r.at = Pro => Basic \notin features

\* The inductive invariant: outside of a publication everything cached or found is
\* right, and within one what is reset already stays so.
CacheInv ==
    /\ Features!TypeOK
    /\ publisher.pc # "reset" => publisher.unreset = {}
    /\ ~cacheRaced => ~Features!Busy
    /\ ~cacheRaced /\ publisher.pc = "idle" => Features!Fresh /\ \A t \in Reader : Found(t)
    /\ ~cacheRaced /\ publisher.pc = "reset" =>
           \A c \in Features!Check \ publisher.unreset : cache[c] = "unknown"

\* What the assumptions on the constants say of checks and features.
LEMMA ChecksApart ==
    /\ Basic # Pro /\ Productivity # Basic /\ Productivity # Pro
    /\ Productivity \notin Features!Feature
    /\ {Basic, Pro} \subseteq Features!Feature
    /\ Features!Feature \subseteq Features!Check
    /\ \A c \in Features!Check : c = Productivity \/ c \in Features!Feature
    /\ Productivity \in Features!Check
BY FeaturesAssumption DEF Features!FeatureAssumption, Features!Feature, Features!Check

\* Nothing is cached or asked at first.
LEMMA CacheInit == Features!Init => CacheInv
<1> SUFFICES ASSUME Features!Init PROVE CacheInv
  OBVIOUS
<1> USE ChecksApart DEF Features!Init, Features!Idle
<1>1. Features!TypeOK
  BY DEF Features!TypeOK, Features!Cached
<1>2. Features!Fresh /\ ~Features!Busy
  BY DEF Features!Fresh, Features!Busy
<1>3. \A t \in Reader : Found(t)
  BY DEF Found
<1> QED
  BY <1>1, <1>2, <1>3 DEF CacheInv

\* A publisher may free the old set only while it is alone, or the race is recorded.
LEMMA CacheFree == CacheInv /\ Features!Free => CacheInv'
<1> SUFFICES ASSUME CacheInv, Features!Free PROVE CacheInv'
  OBVIOUS
<1> USE DEF CacheInv, Features!Free, Features!Race
<1>1. Features!TypeOK'
  BY DEF Features!TypeOK, Features!Busy
<1>2. publisher'.pc = "assign" /\ publisher'.unreset = {}
  BY DEF Features!TypeOK
<1>3. ~cacheRaced' => ~Features!Busy'
  OBVIOUS
<1> QED
  BY <1>1, <1>2, <1>3

\* The new set is in place before the first reset.
LEMMA CacheAssign == CacheInv /\ Features!Assign => CacheInv'
<1> SUFFICES ASSUME CacheInv, Features!Assign PROVE CacheInv'
  OBVIOUS
<1> USE DEF CacheInv, Features!Assign, Features!Race
<1>1. Features!TypeOK'
  BY DEF Features!TypeOK, Features!Busy
<1>2. publisher'.pc = "reset" /\ publisher'.unreset = Features!Check
  BY DEF Features!TypeOK
<1>3. ~cacheRaced' => ~Features!Busy'
  OBVIOUS
<1> QED
  BY <1>1, <1>2, <1>3

\* The last reset leaves nothing cached, and no reader was at work meanwhile.
LEMMA CacheReset ==
  ASSUME CacheInv, NEW c \in Features!Check, Features!Reset(c)
  PROVE  CacheInv'
<1> USE DEF CacheInv, Features!Reset, Features!Race
<1>1. Features!TypeOK'
  BY DEF Features!TypeOK, Features!Busy, Features!Cached
<1>2. ~cacheRaced' => ~Features!Busy' /\ ~cacheRaced
  OBVIOUS
<1>3. \A d \in Features!Check \ publisher'.unreset : ~cacheRaced => cache'[d] = "unknown"
  BY DEF Features!TypeOK
<1>4. publisher'.pc # "reset" => publisher'.unreset = {} /\ publisher'.pc = "idle"
  BY DEF Features!TypeOK, Features!MayReset
<1>5. ASSUME ~cacheRaced', publisher'.pc = "idle"
      PROVE  Features!Fresh' /\ \A t \in Reader : Found(t)'
  <2>1. Features!Fresh'
    BY <1>2, <1>3, <1>4, <1>5 DEF Features!Fresh
  <2>2. \A t \in Reader : reader[t].pc = "idle"
    BY <1>2, <1>5 DEF Features!Busy
  <2> QED
    BY <2>1, <2>2 DEF Found
<1> QED
  BY <1>1, <1>2, <1>3, <1>4, <1>5

\* A reader's step leaves the published set and the publisher alone.  It keeps the
\* invariant if it stays typed, what it has found is right, and it caches that.
LEMMA ReaderKeeps ==
  ASSUME CacheInv, NEW t \in Reader, Features!Race,
         UNCHANGED <<features, publisher>>, Features!TypeOK',
         \A u \in Reader \ {t} : reader'[u] = reader[u],
         reader[t].pc # "idle" \/ reader'[t].pc # "idle",
         ~cacheRaced /\ publisher.pc = "idle" => Features!Fresh' /\ Found(t)',
         reader[t].pc = "idle" => cache' = cache
  PROVE  CacheInv'
<1> USE DEF CacheInv, Features!Race
<1>1. ~cacheRaced' => ~Features!Busy' /\ ~cacheRaced
  OBVIOUS
<1>2. ASSUME ~cacheRaced', publisher.pc = "idle"
      PROVE  \A u \in Reader : Found(u)'
  <2>1. \A u \in Reader \ {t} : Found(u) => Found(u)'
    BY DEF Found, Features!Right
  <2> QED
    BY <1>1, <1>2, <2>1
<1>3. ASSUME ~cacheRaced', publisher.pc = "reset" PROVE cache' = cache
  BY <1>1, <1>3 DEF Features!Busy
<1> QED
  BY <1>1, <1>2, <1>3

\* A check that is not cached is asked; the combined one starts with its first part.
LEMMA CacheAsk ==
  ASSUME CacheInv, NEW t \in Reader, NEW c \in Features!Check, Features!Ask(t, c)
  PROVE  CacheInv'
<1> USE ChecksApart DEF Features!Ask
<1>1. Features!TypeOK'
  BY DEF CacheInv, Features!TypeOK, Features!Cached, Features!Race, Features!Busy
<1>2. \A u \in Reader \ {t} : reader'[u] = reader[u]
  BY DEF CacheInv, Features!TypeOK
<1>3. reader'[t] = [pc |-> "load", goal |-> c, answer |-> "unknown",
                    at |-> IF c = Productivity THEN Basic ELSE c]
  BY DEF CacheInv, Features!TypeOK
<1>4. Found(t)'
  BY <1>3 DEF Found
<1>5. ~cacheRaced /\ publisher.pc = "idle" => Features!Fresh'
  BY DEF CacheInv, Features!Fresh, Features!Right
<1> QED
  BY <1>1, <1>2, <1>3, <1>4, <1>5, ReaderKeeps

\* What is cached is right, and so is what the published set says.
LEMMA CacheLoad ==
  ASSUME CacheInv, NEW t \in Reader, Features!Load(t)
  PROVE  CacheInv'
<1> DEFINE c == reader[t].at
<1> USE DEF Features!Load
<1>1. c \in Features!Check /\ cache[c] \in Features!Cached /\ reader[t].pc = "load"
  BY DEF CacheInv, Features!TypeOK
<1>2. \A a \in Features!Lookups(c) : a \in Features!Cached \ {"unknown"}
  BY DEF Features!Lookups, Features!Answer, Features!Cached
<1>3. PICK a \in Features!Cached \ {"unknown"} :
        /\ reader'[t].pc \in {"next", "store"} /\ reader'[t].answer = a
        /\ reader'[t].at = c /\ reader'[t].goal = reader[t].goal
        /\ a = cache[c] \/ a \in Features!Lookups(c)
        /\ \A u \in Reader \ {t} : reader'[u] = reader[u]
  BY <1>1, <1>2 DEF CacheInv, Features!TypeOK
<1>4. Features!TypeOK'
  BY <1>1, <1>2 DEF CacheInv, Features!TypeOK, Features!Race, Features!Busy
<1>5. ASSUME ~cacheRaced, publisher.pc = "idle" PROVE Features!Fresh' /\ Found(t)'
  <2>1. Features!Fresh /\ Found(t)
    BY <1>5 DEF CacheInv
  <2>2. c # Productivity
    BY <1>1, <2>1 DEF Found
  <2>3. a = Features!Answer(Features!Right(c))
    BY <1>1, <1>3, <1>5, <2>1, <2>2 DEF Features!Fresh, Features!Lookups, Features!Right
  <2>4. Features!Fresh'
    BY <2>1 DEF Features!Fresh, Features!Right
  <2> QED
    BY <1>1, <1>3, <2>1, <2>3, <2>4 DEF Found, Features!Right
<1> QED
  BY <1>1, <1>3, <1>4, <1>5, ReaderKeeps

\* What is stored is what was found.
LEMMA CacheStore ==
  ASSUME CacheInv, NEW t \in Reader, Features!Store(t)
  PROVE  CacheInv'
<1> DEFINE c == reader[t].at
<1> USE DEF Features!Store
<1>1. c \in Features!Check /\ reader[t].pc = "store" /\ reader[t].answer \in Features!Cached
  BY DEF CacheInv, Features!TypeOK
<1>2. /\ reader'[t].pc = "next" /\ reader'[t].answer = reader[t].answer
      /\ reader'[t].at = c /\ reader'[t].goal = reader[t].goal
      /\ \A u \in Reader \ {t} : reader'[u] = reader[u]
      /\ cache' \in [Features!Check -> Features!Cached]
  BY <1>1 DEF CacheInv, Features!TypeOK
<1>3. Features!TypeOK'
  BY <1>1, <1>2 DEF CacheInv, Features!TypeOK, Features!Race, Features!Busy
<1>4. ASSUME ~cacheRaced, publisher.pc = "idle" PROVE Features!Fresh' /\ Found(t)'
  <2>1. Features!Fresh /\ Found(t)
    BY <1>4 DEF CacheInv
  <2>2. reader[t].answer = Features!Answer(Features!Right(c))
    BY <1>1, <2>1 DEF Found
  <2>3. Features!Fresh'
    BY <1>1, <2>1, <2>2 DEF Features!Fresh, Features!Right, CacheInv, Features!TypeOK
  <2> QED
    BY <1>1, <1>2, <2>1, <2>2, <2>3 DEF Found, Features!Right
<1> QED
  BY <1>1, <1>2, <1>3, <1>4, ReaderKeeps

\* The combined check is right once one of its parts is granted, or both are denied.
LEMMA CacheContinue ==
  ASSUME CacheInv, NEW t \in Reader, Features!Continue(t)
  PROVE  CacheInv'
<1> USE ChecksApart DEF Features!Continue
<1>1. reader[t].pc = "next" /\ reader'[t] = Features!After(reader[t])
  BY DEF CacheInv, Features!TypeOK
<1>2. \A u \in Reader \ {t} : reader'[u] = reader[u]
  BY DEF CacheInv, Features!TypeOK
<1>3. Features!TypeOK'
  <2>1. reader[t] \in [pc : {"idle", "load", "store", "next"}, goal : Features!Check,
                       at : Features!Check, answer : Features!Cached]
    BY DEF CacheInv, Features!TypeOK
  <2>2. /\ reader'[t] \in [pc : {"idle", "load", "store", "next"}, goal : Features!Check,
                           at : Features!Check, answer : Features!Cached]
        /\ reader'[t].pc \in {"store", "next"} => reader'[t].answer # "unknown"
    BY <1>1, <2>1 DEF Features!After, Features!Idle, Features!Cached, CacheInv, Features!TypeOK
  <2> QED
    BY <2>2 DEF CacheInv, Features!TypeOK, Features!Race, Features!Busy
<1>4. ASSUME ~cacheRaced, publisher.pc = "idle" PROVE Features!Fresh' /\ Found(t)'
  <2>1. Features!Fresh /\ Found(t)
    BY <1>4 DEF CacheInv
  <2>2. Features!Fresh'
    BY <2>1 DEF Features!Fresh, Features!Right
  <2>3. CASE reader[t].at = reader[t].goal
    BY <1>1, <2>1, <2>2, <2>3 DEF Found, Features!After, Features!Idle
  <2>4. CASE reader[t].at # reader[t].goal
    BY <1>1, <2>1, <2>2, <2>4
       DEF Found, Features!After, Features!Right, Features!Answer, CacheInv, Features!TypeOK
  <2> QED
    BY <2>3, <2>4
<1> QED
  BY <1>1, <1>2, <1>3, <1>4, ReaderKeeps

\* Every step of the feature checks keeps the invariant.
LEMMA CacheNext == CacheInv /\ Features!Next => CacheInv'
BY CacheFree, CacheAssign, CacheReset, CacheAsk, CacheLoad, CacheStore, CacheContinue
   DEF Features!Next, Features!PublisherStep, Features!ReaderStep

-----------------------------------------------------------------------------
(* Gamescope: nobody is left with a connection that is gone.               *)

\* The inductive invariant: while the plugins are being told, sideview may still hold
\* what it saw before, until its turn; the state file may never say more than there is,
\* and one that tears the connection down finds it down until it is done.
ToldInv ==
    /\ trigger.by \in {"connect", "cleanup"}
    /\ trigger.pc \in {"none", "set", "look", "relock"}
    /\ ~reshadeRaced =>
           /\ reported => reshade
           /\ trigger.pc # "none" /\ trigger.by = "cleanup" => ~reshade
           /\ trigger.pc = "set" /\ trigger.by = "connect" => reshade
           /\ trigger.pc \in {"none", "relock"} => (seen => reshade)

\* Nothing is connected or told at first.
LEMMA ToldInit == GamescopeReshade!Init => ToldInv
BY DEF GamescopeReshade!Init, GamescopeReshade!Quiet, ToldInv

\* A connection that changes while the plugins are being told is recorded.
LEMMA RaceRecorded ==
  GamescopeReshade!Race =>
      (~reshadeRaced' => ~reshadeRaced /\ (trigger.pc = "none" \/ reshade' = reshade))
BY DEF GamescopeReshade!Race, GamescopeReshade!plugins_ipc_change_call_in_progress

\* Every way to break the connection down at once says so in the state file.
LEMMA ToldCleanup ==
  ASSUME ToldInv, NEW t, GamescopeReshade!do_wl_cleanup(t), GamescopeReshade!Race
  PROVE  ToldInv'
<1> USE DEF ToldInv, GamescopeReshade!do_wl_cleanup, GamescopeReshade!do_wl_server_disconnect,
            GamescopeReshade!plugins_ipc_change_call_in_progress, GamescopeReshade!Race
<1>1. CASE trigger.pc # "none"
  BY <1>1
<1>2. CASE trigger.pc = "none"
  BY <1>2
<1> QED
  BY <1>1, <1>2

\* A flush changes nothing that the plugins look at.
LEMMA ToldUniform ==
  ASSUME ToldInv, NEW t, GamescopeReshade!SetUniform(t), GamescopeReshade!Race
  PROVE  ToldInv'
<1>1. CASE GamescopeReshade!Flush /\ UNCHANGED <<trigger, seen>>
  BY <1>1 DEF ToldInv, GamescopeReshade!Flush, GamescopeReshade!Race
<1> QED
  BY <1>1, ToldCleanup DEF GamescopeReshade!SetUniform

\* The plugin connects, and tells the others unless they are being told.
LEMMA ToldHandleState == ToldInv /\ GamescopeReshade!HandleState => ToldInv'
<1> SUFFICES ASSUME ToldInv, GamescopeReshade!HandleState PROVE ToldInv'
  OBVIOUS
<1>1. CASE ~reshade /\ GamescopeReshade!Connect /\ reported' = TRUE /\ UNCHANGED seen
           /\ IF trigger.pc # "none" THEN UNCHANGED trigger
              ELSE trigger' = [thread |-> "manage_state", by |-> "connect", pc |-> "set"]
  <2>1. /\ ~reshade /\ reshade' = TRUE /\ reported' = TRUE /\ seen' = seen
        /\ ~reshadeRaced' => ~reshadeRaced /\ (trigger.pc = "none" \/ reshade' = reshade)
    BY <1>1, RaceRecorded DEF GamescopeReshade!HandleState, GamescopeReshade!Connect
  <2>2. IF trigger.pc # "none" THEN trigger' = trigger
        ELSE trigger'.by = "connect" /\ trigger'.pc = "set"
    BY <1>1
  <2> QED
    BY <2>1, <2>2 DEF ToldInv
<1>2. CASE ~reshade /\ GamescopeReshade!ConnectFails /\ UNCHANGED <<reported, trigger, seen>>
  BY <1>2
     DEF ToldInv, GamescopeReshade!HandleState, GamescopeReshade!ConnectFails,
         GamescopeReshade!do_wl_server_disconnect, GamescopeReshade!Race
<1>3. CASE GamescopeReshade!do_wl_cleanup("manage_state")
  BY <1>3, ToldCleanup DEF GamescopeReshade!HandleState
<1> QED
  BY <1>1, <1>2, <1>3
     DEF GamescopeReshade!HandleState, GamescopeReshade!plugins_ipc_change_call_in_progress

\* A session connects if nothing else did.
LEMMA ToldSessionStarts == ToldInv /\ GamescopeReshade!SessionStarts => ToldInv'
<1> SUFFICES ASSUME ToldInv, GamescopeReshade!SessionStarts PROVE ToldInv'
  OBVIOUS
<1>1. /\ UNCHANGED <<reported, trigger, seen>>
      /\ ~reshadeRaced' => ~reshadeRaced /\ (trigger.pc = "none" \/ reshade' = reshade)
  BY RaceRecorded DEF GamescopeReshade!SessionStarts
<1>2. reshade' = reshade \/ (~reshade /\ reshade' = FALSE) \/ reshade' = TRUE
  BY DEF GamescopeReshade!SessionStarts, GamescopeReshade!Connect,
         GamescopeReshade!ConnectFails, GamescopeReshade!do_wl_server_disconnect
<1> QED
  BY <1>1, <1>2 DEF ToldInv

\* Once sideview has had its look, it knows what is connected.
LEMMA ToldTrigger == ToldInv /\ GamescopeReshade!Trigger => ToldInv'
<1> SUFFICES ASSUME ToldInv, GamescopeReshade!Trigger PROVE ToldInv'
  OBVIOUS
<1> USE DEF ToldInv, GamescopeReshade!do_wl_server_disconnect
<1>1. CASE GamescopeReshade!TriggerSets
  BY <1>1 DEF GamescopeReshade!TriggerSets, GamescopeReshade!Flush
<1>2. CASE GamescopeReshade!TriggerLooks
  <2>1. seen' => reshade
    BY <1>2 DEF GamescopeReshade!TriggerLooks
  <2>2. UNCHANGED <<reshade, reported, reshadeRaced>>
    BY <1>2 DEF GamescopeReshade!TriggerLooks
  <2>3. trigger.pc = "look" /\ trigger'.pc = "relock" /\ trigger'.by = trigger.by
    BY <1>2 DEF GamescopeReshade!TriggerLooks
  <2> QED
    BY <2>1, <2>2, <2>3
<1>3. CASE GamescopeReshade!TriggerReturns
  BY <1>3 DEF GamescopeReshade!TriggerReturns, GamescopeReshade!Quiet
<1> QED
  BY <1>1, <1>2, <1>3 DEF GamescopeReshade!Trigger

\* Every step of the plugin, and of what it depends on, keeps the invariant.
LEMMA ToldNext == ToldInv /\ GamescopeReshade!Next => ToldInv'
<1> SUFFICES ASSUME ToldInv, GamescopeReshade!Next PROVE ToldInv'
  OBVIOUS
<1>1. CASE GamescopeReshade!VirtualDisplayState
  BY <1>1, ToldUniform DEF GamescopeReshade!VirtualDisplayState
<1>2. CASE GamescopeReshade!Pose
  BY <1>2, ToldUniform, ToldCleanup DEF GamescopeReshade!Pose
<1>3. CASE GamescopeReshade!SessionEnds
  BY <1>3, ToldCleanup DEF GamescopeReshade!SessionEnds
<1>4. CASE GamescopeReshade!Look
  BY <1>4 DEF ToldInv, GamescopeReshade!Look
<1>5. CASE \/ GamescopeReshade!GamescopeChanges \/ GamescopeReshade!EffectReady
           \/ GamescopeReshade!WaitTimePasses \/ GamescopeReshade!UserChanges
  BY <1>5
     DEF ToldInv, GamescopeReshade!GamescopeChanges, GamescopeReshade!EffectReady,
         GamescopeReshade!WaitTimePasses, GamescopeReshade!UserChanges
<1> QED
  BY <1>1, <1>2, <1>3, <1>4, <1>5, ToldHandleState, ToldSessionStarts, ToldTrigger
     DEF GamescopeReshade!Next

-----------------------------------------------------------------------------
(* SmoothFollow: the place where the user centered the screen is kept.     *)

\* The invariant needs what makes NoPose different from every pose.
HomeInv ==
    /\ {reference, head} \subseteq Follow!Yaw
    /\ origin_pose \in Follow!Yaw \cup {NoPose}
    /\ Follow!HomeKept

\* There is no origin before the first pose.
LEMMA HomeInit == Follow!Init => HomeInv
BY SmoothAssumption DEF Follow!FollowAssumption, Follow!Init, Follow!Yaw, Follow!HomeKept, HomeInv

\* However far a slerp gets, it stays on the way.
LEMMA SlerpTyped ==
  ASSUME NEW f, NEW from \in Follow!Yaw, NEW to \in Follow!Yaw, NEW elapsed
  PROVE  Follow!slerp(f, from, to, elapsed) \subseteq Follow!Yaw
BY SmoothAssumption DEF Follow!FollowAssumption, Follow!Yaw, Follow!slerp, Follow!Towards

\* A pose moves the screen only once its place is kept as the origin, and a snap-back
\* gives the origin up only for the screen to be there.
LEMMA HomePose == HomeInv /\ Follow!smooth_follow_modify_reference_pose => HomeInv'
<1> SUFFICES ASSUME HomeInv, Follow!smooth_follow_modify_reference_pose PROVE HomeInv'
  OBVIOUS
<1> USE DEF HomeInv, Follow!HomeKept, Follow!smooth_follow_modify_reference_pose
<1>1. NoPose \notin Follow!Yaw
  BY SmoothAssumption DEF Follow!FollowAssumption, Follow!Yaw
<1>2. CASE Follow!First
  BY <1>2 DEF Follow!First
<1>3. CASE Follow!FollowHead
  <2>1. reference' \in Follow!Yaw
    BY <1>3, SlerpTyped DEF Follow!FollowHead
  <2> QED
    BY <1>1, <1>3, <2>1 DEF Follow!FollowHead
<1>4. CASE Follow!SnapBack
  <2>1. origin_pose \in Follow!Yaw
    BY <1>4 DEF Follow!SnapBack
  <2>2. reference' \in Follow!Yaw
    BY <1>4, <2>1, SlerpTyped DEF Follow!SnapBack
  <2>3. origin_pose' = origin_pose \/ (origin_pose' = NoPose /\ reference' = origin_pose)
    BY <1>4 DEF Follow!SnapBack
  <2> QED
    BY <1>1, <2>1, <2>2, <2>3
<1> QED
  BY <1>2, <1>3, <1>4

\* Every step keeps the place, or gives the centering up.
LEMMA HomeNext == HomeInv /\ Follow!Next => HomeInv'
<1> SUFFICES ASSUME HomeInv, Follow!Next PROVE HomeInv'
  OBVIOUS
<1> USE DEF HomeInv, Follow!HomeKept
<1>1. 0 \in Follow!Yaw /\ NoPose \notin Follow!Yaw
  BY SmoothAssumption DEF Follow!FollowAssumption, Follow!Yaw
<1>2. CASE \E m \in {"none", "loose", "sticky"} : Follow!Configure(m)
  BY <1>2 DEF Follow!Configure, Follow!Update
<1>3. CASE Follow!HandleState \/ Follow!handle_device_connect
  <2>1. UNCHANGED <<centered, origin_pose, reference, head, home>>
    BY <1>3 DEF Follow!HandleState, Follow!handle_device_connect, Follow!Update
  <2> QED
    BY <2>1
<1>4. CASE Follow!handle_device_disconnect
  BY <1>4 DEF Follow!handle_device_disconnect
<1>5. CASE Follow!smooth_follow_handle_reference_pose_updated
  BY <1>1, <1>5 DEF Follow!smooth_follow_handle_reference_pose_updated
<1>6. CASE Follow!Recalibrate
  BY <1>1, <1>6 DEF Follow!Recalibrate
<1>7. CASE Follow!Turn \/ Follow!License \/ Follow!Tick
  BY <1>7 DEF Follow!Turn, Follow!License, Follow!Tick
<1> QED
  BY <1>2, <1>3, <1>4, <1>5, <1>6, <1>7, HomePose DEF Follow!Next

-----------------------------------------------------------------------------
(* Outputs: the input device is that of the configured mode.               *)

\* A change of the mode that update_config_from_file has yet to deal with.
ModePending ==
    update.output_mode_changed /\ update.pc \in {"disconnect", "decide", "reinit"}

\* The inductive invariant: outside of a session there is no device, which is what
\* init_outputs relies on, and within one there is that of the mode, but for a change
\* that is pending.
DeviceInv ==
    /\ update \in [pc : {"none", "disconnect", "decide", "reinit", "flag"},
                   output_mode_changed : BOOLEAN]
    /\ ~outputsRaced =>
           /\ ~leaked
           /\ session \notin {"blocks", "deinit_outputs"} => uinput = "none"
           /\ session = "blocks" /\ connected /\ ~ModePending =>
                  uinput = IF InputDevice!Made THEN mode ELSE "none"

\* There is no session, no change and no device at first.
LEMMA DeviceInit == InputDevice!Init => DeviceInv
BY DEF InputDevice!Init, DeviceInv

\* A session makes a device where there is none, and takes back the one it has.
LEMMA DeviceSession == DeviceInv /\ InputDevice!Session => DeviceInv'
<1> SUFFICES ASSUME DeviceInv, InputDevice!Session PROVE DeviceInv'
  OBVIOUS
<1> USE DEF DeviceInv, InputDevice!configured, InputDevice!history,
            InputDevice!Moves, InputDevice!Made, ModePending
<1>1. CASE InputDevice!Wakes \/ InputDevice!Connects
  BY <1>1 DEF InputDevice!Wakes, InputDevice!Connects
<1>2. CASE InputDevice!SetsUpIpc \/ InputDevice!Enables
  BY <1>2 DEF InputDevice!SetsUpIpc, InputDevice!Enables
<1>3. CASE InputDevice!InitsOutputs
  BY <1>3 DEF InputDevice!InitsOutputs, InputDevice!init_outputs
<1>4. CASE InputDevice!Returns \/ InputDevice!DeinitsOutputs
  BY <1>4 DEF InputDevice!Returns, InputDevice!DeinitsOutputs, InputDevice!deinit_outputs
<1>5. CASE InputDevice!Disables
  BY <1>5 DEF InputDevice!Disables, InputDevice!WriteFlag
<1> QED
  BY <1>1, <1>2, <1>3, <1>4, <1>5 DEF InputDevice!Session

\* A change of the mode stays pending until the device is made anew, or the connection
\* for which it was made is gone.
LEMMA DeviceUpdate == DeviceInv /\ InputDevice!Update => DeviceInv'
<1> SUFFICES ASSUME DeviceInv, InputDevice!Update PROVE DeviceInv'
  OBVIOUS
<1> USE DEF DeviceInv, InputDevice!configured, InputDevice!history,
            InputDevice!Proceeds, InputDevice!Made, ModePending
<1>1. CASE \E m \in {"mouse", "joystick", "external"}, d \in BOOLEAN :
               InputDevice!UpdatesConfig(m, d)
  <2>1. PICK m \in {"mouse", "joystick", "external"} :
          /\ mode' = m /\ UNCHANGED <<connected, session, uinput, leaked, outputsRaced>>
          /\ update' = [pc |-> "disconnect", output_mode_changed |-> m # mode]
    BY <1>1 DEF InputDevice!UpdatesConfig
  <2>2. update' \in [pc : {"none", "disconnect", "decide", "reinit", "flag"},
                     output_mode_changed : BOOLEAN]
    BY <2>1
  <2>3. ModePending' \/ mode' = mode
    BY <2>1
  <2>4. ~ModePending
    BY <1>1 DEF InputDevice!UpdatesConfig
  <2> QED
    BY <2>1, <2>2, <2>3, <2>4
<1>2. CASE InputDevice!DisconnectsAll
  BY <1>2 DEF InputDevice!DisconnectsAll
<1>3. CASE InputDevice!Decides
  BY <1>3 DEF InputDevice!Decides
<1>4. CASE InputDevice!ReinitsOutputs
  BY <1>4 DEF InputDevice!ReinitsOutputs, InputDevice!reinit_outputs
<1>5. CASE InputDevice!SetsFlag
  BY <1>5 DEF InputDevice!SetsFlag, InputDevice!WriteFlag, InputDevice!Evaluates
<1> QED
  BY <1>1, <1>2, <1>3, <1>4, <1>5 DEF InputDevice!Update

\* Every step of the session, of the configuration and of the glasses.
LEMMA DeviceNext == DeviceInv /\ InputDevice!Next => DeviceInv'
<1> SUFFICES ASSUME DeviceInv, InputDevice!Next PROVE DeviceInv'
  OBVIOUS
<1>1. CASE InputDevice!DevicesChange \/ InputDevice!ConnectionEnds
  BY <1>1
     DEF DeviceInv, InputDevice!configured, InputDevice!history,
         InputDevice!Made, ModePending, InputDevice!DevicesChange,
         InputDevice!ConnectionEnds
<1> QED
  BY <1>1, DeviceSession, DeviceUpdate DEF InputDevice!Next

-----------------------------------------------------------------------------
(* OpenTrackListener: a disabled listener has no thread and no socket.     *)

Stopped == pc[Listener] = "none" /\ ~listener_running /\ ~socket

\* The inductive invariant: listener_running tells whether there is a thread, so that
\* no join is left out; a disconnect of the start function always leads to the close,
\* while one of the feedback guard comes when there is nothing left to stop.
StreamInv ==
    /\ pc \in [Stream!Thread -> Stream!ListenerPC \cup Stream!ConfigPC \cup Stream!DisconnectPC]
    /\ listener_running <=> pc[Listener] # "none"
    /\ pc[Config] \in {"swap", "start", "close", "join", "create"} => ~new_config.guarding
    /\ pc[Config] = "create" => enabled
    /\ pc[Config] = "join" => ~socket
    /\ pc[Config] \in {"idle", "guard", "apply"} /\ ~enabled => Stopped
    /\ pc[Config] \in Stream!DisconnectPC /\ new_config.guarding /\ ~enabled => Stopped

\* Neither thread runs, and nothing is open, at first.
LEMMA StreamInit == Stream!Init => StreamInv
BY StreamAssumption
   DEF Stream!ThreadAssumption, Stream!Init, Stream!Thread, Stream!ListenerPC,
       Stream!ConfigPC, Stream!DisconnectPC, StreamInv, Stopped

\* The listener thread opens nothing, and ends by taking its mark back.
LEMMA StreamListener == StreamInv /\ Stream!ListenerStep => StreamInv'
<1> SUFFICES ASSUME StreamInv, Stream!ListenerStep PROVE StreamInv'
  OBVIOUS
<1> USE StreamAssumption
    DEF StreamInv, Stopped, Stream!ThreadAssumption, Stream!Thread, Stream!ListenerPC,
        Stream!ConfigPC, Stream!DisconnectPC, Stream!Goto, Stream!settings, Stream!shared,
        Stream!environment
<1>1. CASE Stream!Loop
  BY <1>1 DEF Stream!Loop
<1>2. CASE Stream!Timeout \/ Stream!ReceiveFails
  BY <1>2 DEF Stream!Timeout, Stream!ReceiveFails
<1>3. CASE Stream!Receive \/ Stream!Accept
  BY <1>3 DEF Stream!Receive, Stream!Accept
<1>4. CASE Stream!Add
  BY <1>4 DEF Stream!Add
<1>5. CASE Stream!Mark
  BY <1>5 DEF Stream!Mark
<1>6. CASE Stream!Exit
  BY <1>6 DEF Stream!Exit
<1>7. CASE Stream!Find(Listener) \/ Stream!Remove(Listener) \/ Stream!Clear(Listener)
  BY <1>7 DEF Stream!Find, Stream!Remove, Stream!Clear
<1> QED
  BY <1>1, <1>2, <1>3, <1>4, <1>5, <1>6, <1>7 DEF Stream!ListenerStep

\* The config thread passes the end of a disabled listener only when it was stopped.
LEMMA StreamConfig == StreamInv /\ Stream!ConfigStep => StreamInv'
<1> SUFFICES ASSUME StreamInv, Stream!ConfigStep PROVE StreamInv'
  OBVIOUS
<1> USE StreamAssumption
    DEF StreamInv, Stopped, Stream!ThreadAssumption, Stream!Thread, Stream!ListenerPC,
        Stream!ConfigPC, Stream!DisconnectPC, Stream!Goto, Stream!settings, Stream!shared,
        Stream!environment, Stream!AfterStart
<1>1. CASE Stream!Swap
  BY <1>1 DEF Stream!Swap
<1>2. CASE Stream!opentrack_start_func
  BY <1>2 DEF Stream!opentrack_start_func
<1>3. CASE Stream!opentrack_close_socket
  BY <1>3 DEF Stream!opentrack_close_socket
<1>4. CASE Stream!Join
  BY <1>4 DEF Stream!Join
<1>5. CASE Stream!Create
  BY <1>5 DEF Stream!Create
<1>6. CASE Stream!update_feedback_guard
  BY <1>6 DEF Stream!update_feedback_guard
<1>7. CASE Stream!Apply
  BY <1>7 DEF Stream!Apply
<1>8. CASE Stream!Find(Config) \/ Stream!Remove(Config) \/ Stream!Clear(Config)
  BY <1>8 DEF Stream!Find, Stream!Remove, Stream!Clear
<1> QED
  BY <1>1, <1>2, <1>3, <1>4, <1>5, <1>6, <1>7, <1>8 DEF Stream!ConfigStep

\* Sessions and senders neither start nor stop the thread.
LEMMA StreamNext == StreamInv /\ Stream!Next => StreamInv'
<1> SUFFICES ASSUME StreamInv, Stream!Next PROVE StreamInv'
  OBVIOUS
<1> USE StreamAssumption
    DEF StreamInv, Stopped, Stream!ThreadAssumption, Stream!Thread, Stream!ListenerPC,
        Stream!ConfigPC, Stream!DisconnectPC, Stream!Goto, Stream!settings, Stream!shared,
        Stream!environment
<1>1. CASE Stream!set_config
  BY <1>1 DEF Stream!set_config
<1>2. CASE Stream!Choose \/ Stream!Stream
  BY <1>2 DEF Stream!Choose, Stream!Stream
<1>3. CASE Stream!opentrack_device_connect \/ Stream!opentrack_disconnect
  BY <1>3 DEF Stream!opentrack_device_connect, Stream!opentrack_disconnect
<1> QED
  BY <1>1, <1>2, <1>3, StreamListener, StreamConfig DEF Stream!Next

-----------------------------------------------------------------------------
(* The parts together.                                                     *)

IInv ==
    /\ part = "features" => CacheInv
    /\ part = "gamescope" => ToldInv
    /\ part = "smooth_follow" => HomeInv
    /\ part = "outputs" => DeviceInv
    /\ part = "listener" => StreamInv

\* Every behaviour of Services keeps the invariant of its part.
LEMMA InitIInv == Init => IInv
BY CacheInit, ToldInit, HomeInit, DeviceInit, StreamInit DEF Init, IInv

\* A step is one of the part's, and leaves the others alone.
LEMMA NextIInv == IInv /\ [Next]_vars => IInv'
<1> SUFFICES ASSUME IInv, [Next]_vars PROVE IInv'
  OBVIOUS
<1>1. CASE UNCHANGED vars
  <2>1. CacheInv => CacheInv'
    BY <1>1 DEF vars, featureVars, CacheInv, Found, Features!TypeOK, Features!Busy,
                Features!Fresh, Features!Right
  <2>2. ToldInv => ToldInv'
    BY <1>1 DEF vars, reshadeVars, ToldInv
  <2>3. HomeInv => HomeInv'
    BY <1>1 DEF vars, followVars, HomeInv, Follow!HomeKept
  <2>4. DeviceInv => DeviceInv'
    BY <1>1 DEF vars, outputVars, DeviceInv, ModePending, InputDevice!Made
  <2>5. StreamInv => StreamInv'
    BY <1>1 DEF vars, listenerVars, StreamInv, Stopped
  <2> QED
    BY <1>1, <2>1, <2>2, <2>3, <2>4, <2>5 DEF vars, IInv
<1>2. CASE part = "features" /\ Features!Next /\ part' = part
  BY <1>2, CacheNext DEF IInv
<1>3. CASE part = "gamescope" /\ GamescopeReshade!Next /\ part' = part
  BY <1>3, ToldNext DEF IInv
<1>4. CASE part = "smooth_follow" /\ Follow!Next /\ part' = part
  BY <1>4, HomeNext DEF IInv
<1>5. CASE part = "outputs" /\ InputDevice!Next /\ part' = part
  BY <1>5, DeviceNext DEF IInv
<1>6. CASE part = "listener" /\ Stream!Next /\ part' = part
  BY <1>6, StreamNext DEF IInv
<1> QED
  BY <1>1, <1>2, <1>3, <1>4, <1>5, <1>6
     DEF Next, featuresRest, reshadeRest, followRest, outputsRest, listenerRest

\* For any constants that the parts allow, the invariant holds throughout.
THEOREM Invariance == Spec => []IInv
BY InitIInv, NextIInv, PTL DEF Spec

\* device_license.c: once nobody publishes or asks, what the atomics cache is what is
\* published, the combined productivity check included, for any number of readers, as
\* long as none was at work together with a publisher.
THEOREM CachedAnswers == Spec => []FreshUnlessRaced
<1>1. IInv => FreshUnlessRaced
  BY DEF IInv, CacheInv, FreshUnlessRaced, Features!FreshUnlessRaced, Features!Settled
<1> QED
  BY <1>1, Invariance, PTL

\* gamescope_reshade_wayland.c: no plugin and no state file is left with a connection
\* that is gone.
THEOREM ConnectionTold == Spec => []ToldUnlessRaced
<1>1. IInv => ToldUnlessRaced
  BY DEF IInv, ToldInv, ToldUnlessRaced, GamescopeReshade!ToldUnlessRaced,
         GamescopeReshade!Told, GamescopeReshade!Quiet
<1> QED
  BY <1>1, Invariance, PTL

\* smooth_follow.c: the reference pose is where the user centered the screen, or that
\* place is kept as the origin, for any range of the head and any delay.
THEOREM ScreenReturns == Spec => []HomeKept
<1>1. IInv => HomeKept
  BY DEF IInv, HomeInv, HomeKept
<1> QED
  BY <1>1, Invariance, PTL

\* outputs.c: the virtual input device is that of the configured mode within a session,
\* there is none outside of one, and none is forgotten.
THEOREM InputDeviceMatches == Spec => []OutputsMatch
<1>1. IInv => OutputsMatch
  BY DEF IInv, DeviceInv, ModePending, OutputsMatch, InputDevice!OutputsMatch
<1> QED
  BY <1>1, Invariance, PTL

\* opentrack_listener.c: "stop listener and close socket".  Once a configuration that
\* disables the listener was applied, its thread has ended and nothing is open, whatever
\* the thread was doing.
THEOREM ListenerStops == Spec => []StopsListening
<1>1. IInv => StopsListening
  BY DEF IInv, StreamInv, Stopped, StopsListening, Stream!StopsListening
<1> QED
  BY <1>1, Invariance, PTL
=============================================================================
