---------------------------- MODULE FeatureCache ----------------------------
(***************************************************************************)
(* features/*.c and the last part of refresh_license: the published set of *)
(* granted features, and the atomics in which every thread that asks for a *)
(* feature caches its answer.                                              *)
(*                                                                         *)
(* A publisher replaces the set and resets the atomics, one after another, *)
(* under refresh_license_lock, so that one publisher stands for all.       *)
(* Readers take no lock: between their look at the set (which may be freed *)
(* memory by then) and their store, a publisher may do all of its work.    *)
(***************************************************************************)
EXTENDS Naturals, Sequences

CONSTANTS
    Basic, Pro,    \* the features that make up the productivity check
    Others,        \* the features with a check of their own
    Productivity,  \* the check that is cached for Basic and Pro
    Reader         \* threads that ask

\* What an instance has to assume of them.
FeatureAssumption ==
    /\ Basic # Pro /\ {Basic, Pro} \cap Others = {}
    /\ Productivity \notin Others \cup {Basic, Pro}

Feature == Others \cup {Basic, Pro}
Check == Feature \cup {Productivity}

VARIABLES
    granted,    \* state()->granted_features
    publisher,  \* progress of the publishing part of refresh_license
    cache,      \* the *_granted_cached atomics
    reader,     \* progress of each is_..._granted
    raced       \* history: a publisher and a reader were at work together

vars == <<granted, publisher, cache, reader, raced>>

Cached == {"unknown", "granted", "denied"}
Idle == [pc |-> "idle", goal |-> Productivity, at |-> Productivity, answer |-> "unknown"]

TypeOK ==
    /\ granted \subseteq Feature
    /\ publisher \in [pc : {"idle", "assign", "reset"}, unreset : SUBSET Check]
    /\ cache \in [Check -> Cached]
    /\ reader \in [Reader -> [pc : {"idle", "load", "store", "next"},
                              goal : Check, at : Check, answer : Cached]]
    /\ \A t \in Reader : reader[t].pc \in {"store", "next"} => reader[t].answer # "unknown"
    /\ raced \in BOOLEAN

Init ==
    /\ granted = {}
    /\ publisher = [pc |-> "idle", unreset |-> {}]
    /\ cache = [c \in Check |-> "unknown"]
    /\ reader = [t \in Reader |-> Idle]
    /\ raced = FALSE

Busy == publisher.pc # "idle" /\ \E t \in Reader : reader[t].pc # "idle"
Race == raced' = (raced \/ Busy')

-----------------------------------------------------------------------------
(* refresh_license, from free_string_array on.                             *)

\* From here on state()->granted_features is freed memory.
Free ==
    /\ publisher.pc = "idle"
    /\ publisher' = [publisher EXCEPT !.pc = "assign"]
    /\ UNCHANGED <<granted, cache, reader>>
    /\ Race

Assign ==
    /\ publisher.pc = "assign"
    /\ granted' \in SUBSET Feature
    /\ publisher' = [pc |-> "reset", unreset |-> Check]
    /\ UNCHANGED <<cache, reader>>
    /\ Race

\* The order of the resets: the combined check after its parts, then the others.
MayReset(c) ==
    /\ c \in publisher.unreset
    /\ c = Pro => Basic \notin publisher.unreset
    /\ c = Productivity => Pro \notin publisher.unreset
    /\ c \in Others => Productivity \notin publisher.unreset

\* Mutant: reset_productivity_features leaves the combined check as it was.
ResetParts(c) ==
    /\ publisher.pc = "reset"
    /\ MayReset(c)
    /\ cache' = [cache EXCEPT ![c] = IF c = Productivity THEN @ ELSE "unknown"]
    /\ publisher' = [pc |-> IF publisher.unreset = {c} THEN "idle" ELSE "reset",
                     unreset |-> publisher.unreset \ {c}]
    /\ UNCHANGED <<granted, reader>>
    /\ Race

\* reset_productivity_features, reset_sbs_features, reset_smooth_follow_features.
Reset(c) ==
    /\ publisher.pc = "reset"
    /\ MayReset(c)
    /\ cache' = [cache EXCEPT ![c] = "unknown"]
    /\ publisher' = [pc |-> IF publisher.unreset = {c} THEN "idle" ELSE "reset",
                     unreset |-> publisher.unreset \ {c}]
    /\ UNCHANGED <<granted, reader>>
    /\ Race

-----------------------------------------------------------------------------
(* is_sbs_granted, is_smooth_follow_granted, is_productivity_granted and   *)
(* its two parts.                                                          *)

Answer(yes) == IF yes THEN "granted" ELSE "denied"

\* in_array on state()->granted_features, or on what is left of it.
Lookups(f) == {Answer(yes) : yes \in IF publisher.pc = "assign" THEN BOOLEAN
                                                              ELSE {f \in granted}}

\* A check that is cached changes nothing; the combined check asks its parts.
Ask(t, c) ==
    /\ reader[t].pc = "idle"
    /\ cache[c] = "unknown"
    /\ reader' = [reader EXCEPT ![t] =
           [pc |-> "load", goal |-> c, answer |-> "unknown",
            at |-> IF c = Productivity THEN Basic ELSE c]]
    /\ UNCHANGED <<granted, publisher, cache>>
    /\ Race

Load(t) ==
    /\ reader[t].pc = "load"
    /\ LET c == reader[t].at IN
       \/ /\ cache[c] # "unknown"
          /\ reader' = [reader EXCEPT ![t].pc = "next", ![t].answer = cache[c]]
       \/ /\ cache[c] = "unknown"
          /\ \E a \in Lookups(c) :
                reader' = [reader EXCEPT ![t].pc = "store", ![t].answer = a]
    /\ UNCHANGED <<granted, publisher, cache>>
    /\ Race

Store(t) ==
    /\ reader[t].pc = "store"
    /\ cache' = [cache EXCEPT ![reader[t].at] = reader[t].answer]
    /\ reader' = [reader EXCEPT ![t].pc = "next"]
    /\ UNCHANGED <<granted, publisher>>
    /\ Race

\* The combined check is granted with its first part, or else as its second.
After(now) ==
    CASE now.at = now.goal -> Idle
      [] now.at # now.goal /\ now.at = Basic /\ now.answer = "denied" ->
             [now EXCEPT !.pc = "load", !.at = Pro, !.answer = "unknown"]
      [] OTHER -> [now EXCEPT !.pc = "store", !.at = now.goal]

Continue(t) ==
    /\ reader[t].pc = "next"
    /\ reader' = [reader EXCEPT ![t] = After(reader[t])]
    /\ UNCHANGED <<granted, publisher, cache>>
    /\ Race

ReaderStep(t) == Load(t) \/ Store(t) \/ Continue(t)
PublisherStep == Free \/ Assign \/ \E c \in Check : Reset(c)

Next ==
    \/ PublisherStep
    \/ \E t \in Reader : ReaderStep(t) \/ \E c \in Check : Ask(t, c)

Spec == Init /\ [][Next]_vars

-----------------------------------------------------------------------------
(* Properties.                                                             *)

\* What a check should answer.
Right(c) == IF c = Productivity THEN granted \cap {Basic, Pro} # {} ELSE c \in granted

Settled == publisher.pc = "idle" /\ \A t \in Reader : reader[t].pc = "idle"
Fresh == \A c \in Check : cache[c] \in {"unknown", Answer(Right(c))}

\* As long as no reader was ever at work together with a publisher, every cached
\* answer, the combined one included, is the published one: the resets reach
\* every atomic, and readers that only race with each other do no harm.
FreshUnlessRaced == Settled /\ ~raced => Fresh

\* device_license.c: "granted_features has changed; clear cached feature checks".
\* So once nobody is publishing or asking, a cached answer is the published one.
\* It is not: a reader may look at the old set and store after the reset.
CachesFresh == Settled => Fresh
=============================================================================
