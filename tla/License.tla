------------------------------ MODULE License ------------------------------
(***************************************************************************)
(* plugins/device_license.c: the license file, and the granted features    *)
(* that refresh_license finds in it and publishes.                         *)
(*                                                                         *)
(* refresh_license is called by the main thread, the control-flag thread   *)
(* and the block_on_device thread.  It holds refresh_license_lock twice:   *)
(* while it finds a license, and again while it publishes the result.  What *)
(* publishing does to the threads that ask for a feature is FeatureCache.  *)
(*                                                                         *)
(* A license is abstracted to the features it lists as "on" or "trial",    *)
(* and to whether it is genuine: signed by the server for this hardware.   *)
(***************************************************************************)
EXTENDS Naturals

CONSTANTS
    Feature,         \* the features that a license may list
    Granted,         \* those that the server grants to begin with
    Refresher,       \* the threads that call refresh_license
    NoLicense

License == [genuine : BOOLEAN, features : SUBSET Feature]

ASSUME LicenseAssumption ==
    /\ Granted \subseteq Feature
    /\ NoLicense \notin Refresher \cup License

VARIABLES
    server,   \* the features that the server grants
    expired,  \* the features whose endDate has passed
    file,     \* the license file, or NoLicense
    day_old,  \* it was not touched for over a day
    lock,     \* who holds refresh_license_lock: a Refresher or NoLicense
    refresh,  \* progress of each refresh_license
    granted,  \* state()->granted_features
    issued    \* history: the features of all genuine licenses so far

licenseVars == <<server, expired, file, day_old, issued>>
vars == <<licenseVars, lock, refresh, granted>>

Attempts == 2
Refresh == [pc : {"idle", "lock", "open", "download", "parse", "unlock", "relock",
                  "publish", "done"},
            force : BOOLEAN, attempt : 0 .. Attempts,
            source : License \cup {NoLicense}, \* the temporary file's content, or
                                               \* NoLicense for the license file
            features : SUBSET Feature]

TypeOK ==
    /\ server \subseteq Feature /\ expired \subseteq Feature
    /\ file \in License \cup {NoLicense}
    /\ day_old \in BOOLEAN
    /\ lock \in Refresher \cup {NoLicense}
    /\ \A r \in Refresher : refresh[r].pc \notin {"idle", "lock", "relock"} => lock = r
    /\ refresh \in [Refresher -> Refresh]
    /\ granted \subseteq Feature
    /\ issued \subseteq Feature

Genuine(features) == [genuine |-> TRUE, features |-> features]

Idle == [pc |-> "idle", force |-> FALSE, attempt |-> 0, source |-> NoLicense,
         features |-> {}]

Init ==
    /\ server = Granted
    /\ expired = {}
    /\ file \in {NoLicense, Genuine(Granted),
                 [genuine |-> FALSE, features |-> Feature]}
    /\ day_old \in BOOLEAN
    /\ lock = NoLicense
    /\ refresh = [r \in Refresher |-> Idle]
    /\ granted = {}
    /\ issued = Granted

-----------------------------------------------------------------------------
(* refresh_license.                                                        *)

At(r, pc) == refresh[r].pc = pc

Goto(r, pc) == refresh' = [refresh EXCEPT ![r].pc = pc]

\* Without a hardware id nothing is read, and nothing is granted.
refresh_license(r, force) ==
    /\ At(r, "idle")
    /\ \E pc \in {"lock", "relock"} :
          refresh' = [refresh EXCEPT ![r] = [Idle EXCEPT !.pc = pc, !.force = force]]
    /\ UNCHANGED <<licenseVars, lock, granted>>

Lock(r) ==
    /\ At(r, "lock") \/ At(r, "relock")
    /\ lock = NoLicense
    /\ lock' = r
    /\ Goto(r, IF At(r, "lock") THEN "open" ELSE "publish")
    /\ UNCHANGED <<licenseVars, granted>>

\* A license file that is a day old is downloaded again.
Open(r) ==
    /\ At(r, "open")
    /\ Goto(r, IF file # NoLicense /\ ~day_old /\ ~refresh[r].force THEN "parse"
                                                                    ELSE "download")
    /\ UNCHANGED <<licenseVars, lock, granted>>

\* What the server may answer with status 200.
Responses == {Genuine(server), [genuine |-> FALSE, features |-> Feature]}

\* The answer goes to a temporary file.  If there is none, the license file is
\* used, whatever its age; without one, or if a file cannot be opened, the
\* search ends.
Download(r) ==
    /\ At(r, "download")
    /\ \/ \E response \in Responses :
             refresh' = [refresh EXCEPT ![r].pc = "parse", ![r].source = response]
       \/ /\ file # NoLicense
          /\ Goto(r, "parse")
       \/ Goto(r, "unlock")
    /\ UNCHANGED <<licenseVars, lock, granted>>

Found(r) == IF refresh[r].source = NoLicense THEN file ELSE refresh[r].source

\* Mutant: the temporary file replaces the license before it is verified.
RenameFirst(r) ==
    /\ At(r, "parse")
    /\ file' = IF Found(r).genuine \/ refresh[r].source # NoLicense THEN Found(r)
                                                                   ELSE NoLicense
    /\ day_old' = FALSE
    /\ refresh' = [refresh EXCEPT
           ![r].features = IF Found(r).genuine THEN Found(r).features ELSE {},
           ![r].attempt = 1, ![r].pc = "unlock", ![r].source = NoLicense]
    /\ UNCHANGED <<server, expired, issued, lock, granted>>

\* Mutant: the features are collected before the signature is looked at.
ParseUnverified(r) ==
    /\ At(r, "parse")
    /\ file' = IF Found(r).genuine THEN Found(r) ELSE file
    /\ day_old' = FALSE
    /\ refresh' = [refresh EXCEPT
           ![r].features = Found(r).features,
           ![r].attempt = 1, ![r].pc = "unlock", ![r].source = NoLicense]
    /\ UNCHANGED <<server, expired, issued, lock, granted>>

\* Mutant: the loop does not count the attempts that failed.
ParseAgain(r) ==
    /\ At(r, "parse")
    /\ IF Found(r).genuine
       THEN /\ file' = Found(r)
            /\ day_old' = (day_old /\ refresh[r].source = NoLicense)
            /\ refresh' = [refresh EXCEPT ![r].pc = "unlock", ![r].source = NoLicense,
                                          ![r].features = Found(r).features \ expired]
       ELSE /\ file' = IF refresh[r].source = NoLicense THEN NoLicense ELSE file
            /\ UNCHANGED day_old
            /\ refresh' = [refresh EXCEPT ![r].source = NoLicense, ![r].pc = "open"]
    /\ UNCHANGED <<server, expired, issued, lock, granted>>

\* get_license_features, and what becomes of the file that was read: a genuine
\* answer replaces the license file; what is not genuine is removed, and the
\* search begins again if that was its first attempt.
Parse(r) ==
    /\ At(r, "parse")
    /\ IF Found(r).genuine
       THEN /\ file' = Found(r)
            /\ day_old' = (day_old /\ refresh[r].source = NoLicense)
            /\ refresh' = [refresh EXCEPT ![r].pc = "unlock", ![r].source = NoLicense,
                                          ![r].features = Found(r).features \ expired]
       ELSE /\ file' = IF refresh[r].source = NoLicense THEN NoLicense ELSE file
            /\ UNCHANGED day_old
            /\ refresh' = [refresh EXCEPT ![r].attempt = @ + 1, ![r].source = NoLicense,
                   ![r].pc = IF refresh[r].attempt + 1 < Attempts THEN "open"
                                                                  ELSE "unlock"]
    /\ UNCHANGED <<server, expired, issued, lock, granted>>

Unlock(r) ==
    /\ At(r, "unlock") \/ At(r, "done")
    /\ lock' = NoLicense
    /\ refresh' = [refresh EXCEPT ![r] =
           IF At(r, "unlock") THEN [Idle EXCEPT !.pc = "relock", !.features = refresh[r].features]
                              ELSE Idle]
    /\ UNCHANGED <<licenseVars, granted>>

Publish(r) ==
    /\ At(r, "publish")
    /\ granted' = refresh[r].features
    /\ refresh' = [refresh EXCEPT ![r] = [Idle EXCEPT !.pc = "done"]]
    /\ UNCHANGED <<licenseVars, lock>>

RefreshStep(r) ==
    Lock(r) \/ Open(r) \/ Download(r) \/ Parse(r) \/ Unlock(r) \/ Publish(r)

-----------------------------------------------------------------------------
(* The world.                                                              *)

Purchase(features) ==
    /\ server' = features
    /\ issued' = issued \cup features
    /\ UNCHANGED <<expired, file, day_old, lock, refresh, granted>>

TimePasses ==
    /\ \/ /\ day_old' = TRUE
          /\ UNCHANGED expired
       \/ /\ \E f \in Granted : expired' = expired \cup {f}
          /\ UNCHANGED day_old
    /\ UNCHANGED <<server, file, issued, lock, refresh, granted>>

Next ==
    \/ \E r \in Refresher :
          \/ \E force \in BOOLEAN : refresh_license(r, force)
          \/ RefreshStep(r)
    \/ \E features \in SUBSET Feature : Purchase(features)
    \/ TimePasses

\* A refresh that began goes on: the download has a timeout of 15 seconds, and
\* pthread_mutex_lock is granted in the end.
Fairness == \A r \in Refresher : WF_vars(RefreshStep(r)) /\ SF_vars(Lock(r))

Spec == Init /\ [][Next]_vars
FairSpec == Spec /\ Fairness

-----------------------------------------------------------------------------
(* Properties.                                                             *)

\* Nothing is granted that no genuine license granted, whatever the server
\* answered and whichever of the files was read.
GrantsIssued == granted \subseteq issued

\* A genuine license file is only replaced by another: neither a failed or
\* forged download nor a second refresher costs the user the license he has.
GenuineFileKept ==
    [][file # NoLicense /\ file.genuine => file' # NoLicense /\ file'.genuine]_vars

\* Every path through refresh_license, its breaks included, gives the lock back
\* and publishes.
RefreshEnds == \A r \in Refresher : (refresh[r].pc # "idle") ~> (refresh[r].pc = "idle")
=============================================================================
