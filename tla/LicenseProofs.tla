--------------------------- MODULE LicenseProofs ---------------------------
(***************************************************************************)
(* Proofs, for any features and any threads that refresh the license, that *)
(* only what genuine licenses list is granted, and that a genuine license  *)
(* file is not lost.                                                       *)
(***************************************************************************)
EXTENDS License, TLAPS

\* A license that is not genuine may list anything.
Trusted(license) == license.genuine => license.features \subseteq issued

\* The inductive invariant: whatever is on its way from the server to the granted
\* features was issued, and a refresh that is about to parse the license file finds one,
\* since only the holder of the lock removes it.
IInv ==
    /\ TypeOK
    /\ server \subseteq issued
    /\ file # NoLicense => Trusted(file)
    /\ \A r \in Refresher :
          /\ refresh[r].source # NoLicense => Trusted(refresh[r].source)
          /\ refresh[r].features \subseteq issued
          /\ At(r, "parse") => Found(r) # NoLicense
          /\ refresh[r].pc \in {"lock", "open", "download", "parse"} =>
                 refresh[r].attempt < Attempts
    /\ granted \subseteq issued

\* What a refresh may hold in place of a license is told from one.
LEMMA NoLicenseApart == NoLicense \notin License /\ NoLicense \notin Refresher
BY LicenseAssumption

\* A refresh that has not begun.
LEMMA IdleTyped ==
    Idle \in Refresh /\ Idle.pc = "idle" /\ Idle.source = NoLicense /\ Idle.features = {}
        /\ Idle.attempt = 0
<1>1. 0 \in 0 .. Attempts
  BY DEF Attempts
<1>2. Idle \in Refresh
  BY <1>1 DEF Refresh, Idle
<1> QED
  BY <1>2 DEF Idle

\* A refresh that found features, or that is over.
LEMMA Between ==
  ASSUME NEW pc \in {"relock", "done"}, NEW features \in SUBSET Feature,
         NEW now \in {[Idle EXCEPT !.pc = pc, !.features = features], [Idle EXCEPT !.pc = pc]}
  PROVE  /\ now \in Refresh
         /\ now.pc = pc /\ now.source = NoLicense /\ now.attempt = 0
         /\ now.features \in {{}, features}
BY IdleTyped DEF Refresh

\* What the server signs is a license.
LEMMA GenuineTyped ==
  ASSUME NEW features \in SUBSET Feature PROVE Genuine(features) \in License
BY DEF Genuine, License

\* Nothing is granted at first, and a file that is there is genuine or grants nothing.
LEMMA InitIInv == Init => IInv
<1> SUFFICES ASSUME Init PROVE IInv
  OBVIOUS
<1>1. TypeOK
  <2>1. [genuine |-> FALSE, features |-> Feature] \in License
    BY DEF License
  <2>2. file \in License \cup {NoLicense}
    BY <2>1, GenuineTyped, LicenseAssumption DEF Init
  <2> QED
    BY <2>2, IdleTyped, LicenseAssumption DEF Init, TypeOK
<1>2. Trusted(Genuine(Granted))
  BY DEF Init, Trusted, Genuine
<1> QED
  BY <1>1, <1>2 DEF Init, IInv, Trusted, Idle, Attempts, At

\* A refresh that runs with the lock held runs alone.
LEMMA HolderAlone ==
  ASSUME TypeOK, NEW r \in Refresher, refresh[r].pc \notin {"idle", "lock", "relock"},
         NEW q \in Refresher \ {r}
  PROVE  refresh[q].pc \in {"idle", "lock", "relock"}
BY DEF TypeOK

\* A refresh begins without anything found, and may have to wait for the lock.
LEMMA BeginIInv ==
  ASSUME IInv, NEW r \in Refresher, NEW force \in BOOLEAN, refresh_license(r, force)
  PROVE  IInv'
<1> USE NoLicenseApart DEF refresh_license, licenseVars
<1>1. PICK pc \in {"lock", "relock"} :
        refresh' = [refresh EXCEPT ![r] = [Idle EXCEPT !.pc = pc, !.force = force]]
  OBVIOUS
<1>2. /\ refresh'[r].source = NoLicense /\ refresh'[r].features = {}
      /\ refresh'[r].attempt = 0 /\ refresh'[r].pc = pc
      /\ refresh'[r] \in Refresh
      /\ \A q \in Refresher \ {r} : refresh'[q] = refresh[q]
  <2> DEFINE now == [Idle EXCEPT !.pc = pc, !.force = force]
  <2>1. now \in Refresh /\ now.pc = pc /\ now.source = NoLicense /\ now.attempt = 0
        /\ now.features = {}
    BY IdleTyped DEF Refresh
  <2> QED
    BY <1>1, <2>1 DEF IInv, TypeOK
<1>3. TypeOK'
  BY <1>1, <1>2 DEF IInv, TypeOK
<1> QED
  BY <1>2, <1>3 DEF IInv, At, Found, Trusted, Attempts

\* The lock goes to one refresh at a time.
LEMMA LockIInv ==
  ASSUME IInv, NEW r \in Refresher, Lock(r)
  PROVE  IInv'
<1> USE NoLicenseApart DEF Lock, licenseVars, Goto, At
<1>1. /\ refresh'[r] = [refresh[r] EXCEPT !.pc = IF refresh[r].pc = "lock" THEN "open"
                                                                         ELSE "publish"]
      /\ refresh'[r] \in Refresh
      /\ refresh'[r].pc = "open" => refresh[r].pc = "lock"
      /\ refresh'[r].pc \in {"open", "publish"}
      /\ \A q \in Refresher \ {r} : refresh'[q] = refresh[q]
  BY DEF IInv, TypeOK, Refresh
<1>2. TypeOK'
  BY <1>1 DEF IInv, TypeOK
<1> QED
  BY <1>1, <1>2 DEF IInv, Found, Trusted, Refresh

\* A license file is only parsed if it is there.
LEMMA OpenIInv ==
  ASSUME IInv, NEW r \in Refresher, Open(r)
  PROVE  IInv'
<1> USE NoLicenseApart DEF Open, licenseVars, Goto, At
<1>1. /\ refresh'[r] \in Refresh
      /\ refresh'[r].source = refresh[r].source /\ refresh'[r].features = refresh[r].features
      /\ refresh'[r].attempt = refresh[r].attempt
      /\ refresh'[r].pc \in {"parse", "download"}
      /\ refresh'[r].pc = "parse" => file # NoLicense
      /\ \A q \in Refresher \ {r} : refresh'[q] = refresh[q]
  BY DEF IInv, TypeOK, Refresh
<1>2. TypeOK'
  BY <1>1 DEF IInv, TypeOK
<1> QED
  BY <1>1, <1>2 DEF IInv, Found, Trusted

\* The server signs what it grants, and what it did not sign is not genuine.
LEMMA ResponsesTrusted ==
  ASSUME IInv, NEW response \in Responses
  PROVE  response \in License /\ response # NoLicense /\ Trusted(response)
<1>1. response \in License
  <2>1. [genuine |-> FALSE, features |-> Feature] \in License
    BY DEF License
  <2> QED
    BY <2>1, GenuineTyped DEF IInv, TypeOK, Responses
<1>2. Trusted(response)
  BY DEF IInv, Responses, Trusted, Genuine
<1> QED
  BY <1>1, <1>2, NoLicenseApart

\* The answer is kept apart from the license file.
LEMMA DownloadIInv ==
  ASSUME IInv, NEW r \in Refresher, Download(r)
  PROVE  IInv'
<1> USE NoLicenseApart DEF Download, licenseVars, Goto, At
<1>1. /\ refresh'[r] \in Refresh
      /\ refresh'[r].source = refresh[r].source \/ refresh'[r].source \in Responses
      /\ refresh'[r].features = refresh[r].features
      /\ refresh'[r].attempt = refresh[r].attempt
      /\ refresh'[r].pc \in {"parse", "unlock"}
      /\ refresh'[r].pc = "parse" => file # NoLicense \/ refresh'[r].source \in Responses
      /\ \A q \in Refresher \ {r} : refresh'[q] = refresh[q]
  BY ResponsesTrusted DEF IInv, TypeOK, Refresh
<1>2. TypeOK'
  BY <1>1 DEF IInv, TypeOK
<1> QED
  BY <1>1, <1>2, ResponsesTrusted DEF IInv, Found, Trusted

\* What was found becomes the license file, and its features the result, only if it is
\* genuine; otherwise its file is removed, which nobody else is about to parse.
LEMMA ParseIInv ==
  ASSUME IInv, NEW r \in Refresher, Parse(r)
  PROVE  IInv'
<1> DEFINE found == Found(r)
<1>1. /\ found \in License /\ Trusted(found)
      /\ \A q \in Refresher \ {r} : refresh[q].pc \in {"idle", "lock", "relock"}
      /\ refresh[r] \in Refresh /\ refresh[r].pc = "parse" /\ refresh[r].attempt < Attempts
  BY HolderAlone DEF Parse, IInv, TypeOK, Found, At, Refresh
<1>2. /\ refresh'[r] \in Refresh /\ refresh'[r].source = NoLicense
      /\ refresh'[r].features = refresh[r].features
             \/ (found.genuine /\ refresh'[r].features \subseteq found.features)
      /\ refresh'[r].pc \in {"open", "unlock"}
      /\ refresh'[r].pc = "open" => refresh'[r].attempt < Attempts
      /\ \A q \in Refresher \ {r} : refresh'[q] = refresh[q]
  BY <1>1 DEF Parse, IInv, TypeOK, Refresh, License, Attempts
<1>3. file' \in {found, NoLicense, file}
  BY DEF Parse
<1>4. UNCHANGED <<server, expired, issued, lock, granted>> /\ day_old' \in BOOLEAN
  BY DEF Parse, IInv, TypeOK
<1> HIDE DEF found
<1>5. TypeOK'
  <2>1. refresh' \in [Refresher -> Refresh]
    BY <1>1, <1>2 DEF Parse, IInv, TypeOK
  <2>2. file' \in License \cup {NoLicense}
    BY <1>1, <1>3 DEF IInv, TypeOK
  <2>3. lock = r
    BY <1>1 DEF IInv, TypeOK
  <2> QED
    BY <1>1, <1>2, <1>4, <2>1, <2>2, <2>3 DEF IInv, TypeOK
<1>6. \A q \in Refresher : refresh'[q].pc # "parse"
  BY <1>1, <1>2
<1> QED
  BY <1>1, <1>2, <1>3, <1>4, <1>5, <1>6 DEF IInv, Trusted, At

\* What was found outlives the lock.
LEMMA UnlockIInv ==
  ASSUME IInv, NEW r \in Refresher, Unlock(r)
  PROVE  IInv'
<1> USE NoLicenseApart DEF Unlock, licenseVars, At
<1>1. /\ refresh'[r] \in Refresh /\ refresh'[r].source = NoLicense
      /\ refresh'[r].features = refresh[r].features \/ refresh'[r].features = {}
      /\ refresh'[r].pc \in {"relock", "idle"}
      /\ \A q \in Refresher \ {r} : refresh'[q] = refresh[q]
  <2>1. refresh[r].features \in SUBSET Feature
    BY DEF IInv, TypeOK, Refresh
  <2> DEFINE now == [Idle EXCEPT !.pc = "relock", !.features = refresh[r].features]
  <2>2. now \in Refresh /\ now.pc = "relock" /\ now.source = NoLicense
        /\ now.features \in {{}, refresh[r].features}
    BY <2>1, Between
  <2> QED
    BY <2>2, IdleTyped DEF IInv, TypeOK
<1>2. \A q \in Refresher \ {r} : refresh[q].pc \in {"idle", "lock", "relock"}
  BY HolderAlone DEF IInv
<1>3. TypeOK'
  BY <1>1, <1>2 DEF IInv, TypeOK
<1> QED
  BY <1>1, <1>2, <1>3 DEF IInv, Found, Trusted

\* What was found is published.
LEMMA PublishIInv ==
  ASSUME IInv, NEW r \in Refresher, Publish(r)
  PROVE  IInv'
<1> USE NoLicenseApart DEF Publish, licenseVars, At
<1>1. /\ refresh'[r] \in Refresh /\ refresh'[r].source = NoLicense
      /\ refresh'[r].features = {} /\ refresh'[r].pc = "done"
      /\ refresh[r].features \subseteq Feature
      /\ \A q \in Refresher \ {r} : refresh'[q] = refresh[q]
  <2>1. refresh[r].features \subseteq Feature
    BY DEF IInv, TypeOK, Refresh
  <2> DEFINE now == [Idle EXCEPT !.pc = "done"]
  <2>2. now \in Refresh /\ now.pc = "done" /\ now.source = NoLicense /\ now.features = {}
    BY Between
  <2> QED
    BY <2>1, <2>2 DEF IInv, TypeOK
<1>2. TypeOK'
  BY <1>1 DEF IInv, TypeOK
<1> QED
  BY <1>1, <1>2 DEF IInv, Found, Trusted

\* Purchases and time only add to what was issued, and to what has expired.
LEMMA WorldIInv ==
  ASSUME IInv, TimePasses \/ \E features \in SUBSET Feature : Purchase(features)
  PROVE  IInv'
<1>1. CASE TimePasses
  BY <1>1, LicenseAssumption DEF TimePasses, IInv, TypeOK, Found, Trusted, At
<1>2. ASSUME NEW features \in SUBSET Feature, Purchase(features) PROVE IInv'
  <2>1. TypeOK'
    BY <1>2 DEF Purchase, IInv, TypeOK
  <2> QED
    BY <1>2, <2>1 DEF Purchase, IInv, Found, Trusted, At
<1> QED
  BY <1>1, <1>2

\* Every step keeps the invariant.
LEMMA NextIInv == IInv /\ [Next]_vars => IInv'
<1> SUFFICES ASSUME IInv, [Next]_vars PROVE IInv'
  OBVIOUS
<1>1. CASE UNCHANGED vars
  BY <1>1 DEF vars, licenseVars, IInv, TypeOK, Found, Trusted, At
<1>2. CASE Next
  BY <1>2, BeginIInv, LockIInv, OpenIInv, DownloadIInv, ParseIInv, UnlockIInv, PublishIInv,
     WorldIInv DEF Next, RefreshStep
<1> QED
  BY <1>1, <1>2

\* The invariant holds throughout, with any number of refreshes at once.
THEOREM Invariance == Spec => []IInv
BY InitIInv, NextIInv, PTL DEF Spec

\* Type correctness, which includes that refresh_license_lock is held by whoever reads
\* or replaces the license file.
THEOREM TypeCorrect == Spec => []TypeOK
<1>1. IInv => TypeOK
  BY DEF IInv
<1> QED
  BY <1>1, Invariance, PTL

\* device_license.c: nothing is granted that no genuine license listed, whatever the
\* server answers and whichever file was read.
THEOREM OnlyIssued == Spec => []GrantsIssued
<1>1. IInv => GrantsIssued
  BY DEF IInv, GrantsIssued
<1> QED
  BY <1>1, Invariance, PTL

\* device_license.c: a genuine license file is only replaced by another genuine one.
THEOREM FileKept == Spec => GenuineFileKept
<1>1. ASSUME IInv, [Next]_vars, file # NoLicense, file.genuine
      PROVE  file' # NoLicense /\ file'.genuine
  <2>1. CASE file' = file
    BY <1>1, <2>1
  <2>2. ASSUME NEW r \in Refresher, Parse(r)
        PROVE  file' # NoLicense /\ file'.genuine
    <3>1. Found(r) # NoLicense /\ (refresh[r].source = NoLicense => Found(r) = file)
      BY <1>1, <2>2 DEF IInv, Parse, Found
    <3> QED
      BY <1>1, <2>2, <3>1 DEF Parse
  <2> QED
    BY <1>1, <2>1, <2>2
       DEF Next, vars, licenseVars, refresh_license, RefreshStep, Lock, Open, Download,
           Unlock, Publish, Purchase, TimePasses
<1>2. IInv /\ [Next]_vars =>
          [file # NoLicense /\ file.genuine => file' # NoLicense /\ file'.genuine]_vars
  BY <1>1
<1> QED
  BY <1>2, Invariance, PTL DEF Spec, GenuineFileKept
=============================================================================
