------------------------ MODULE ConnectionPoolProofs ------------------------
(***************************************************************************)
(* Proofs, for any devices, models and drivers, that the pool's selection  *)
(* is consistent, that a model is in it once, that the flag which guards   *)
(* pthread_create and pthread_join is exact, and that block_on_active      *)
(* returns only when the threads it waited for have ended.                 *)
(***************************************************************************)
EXTENDS ConnectionPool, SequenceTheorems, WellFoundedInduction, TLAPS

(***************************************************************************)
(* The inductive invariant: Selects(list, primary_index,                   *)
(* supplemental_index) speaks of the selection, Session of the threads.    *)
(***************************************************************************)

\* A selection keeps to the order of the list: the primary is the first pair
\* of glasses, or the first connection.
Selects(l, p, s) ==
    /\ l \in Seq(Device) /\ p \in 0 .. Len(l) /\ s \in 0 .. Len(l)
    /\ p = 0 <=> Len(l) = 0
    /\ \A i \in 1 .. p - 1 : l[i] \in CanBeSupplemental
    /\ p # 0 /\ l[p] \in CanBeSupplemental => p = 1
    /\ s # 0 => s # p /\ l[s] \in CanBeSupplemental
    /\ s = 0 => \A i \in 1 .. Len(l) : i # p => l[i] \notin CanBeSupplemental
    /\ \A i, j \in 1 .. Len(l) : ModelOf[l[i]] = ModelOf[l[j]] => i = j

\* Glasses have a thread only while block_on_active runs it.
GlassesInSession ==
    \A c \in ToSet(list) \ CanBeSupplemental :
        thread[c] # "none" => blocker.pc \in {"started", "join"} /\ blocker.p = c

\* block_on_active does not go on before the primary's thread has ended, and no
\* other session starts that thread again before it returns: a primary that can
\* be supplemental is the first connection, so it is not the supplemental of a
\* primary whose thread runs.
PrimaryEnded ==
    /\ /\ blocker.pc \in {"started", "join", "stop_supplemental", "join_supplemental"}
       /\ blocker.p \in ToSet(list) \cap CanBeSupplemental
       => list[1] = blocker.p
    /\ /\ blocker.pc \in {"stop_supplemental", "join_supplemental"}
       /\ blocker.p \in ToSet(list)
       => thread[blocker.p] = "none"

Session == RunningFlagExact /\ GlassesInSession /\ PrimaryEnded

IInv ==
    /\ TypeOK
    /\ Selects(list, primary_index, supplemental_index)
    /\ Session

-----------------------------------------------------------------------------
(* Sequences and indexes.                                                  *)

\* A nonempty set of indexes has a least element.
LEMMA LeastElement ==
  ASSUME NEW S, S \subseteq Nat, S # {}
  PROVE  Min(S) \in S /\ \A y \in S : Min(S) =< y
<1> DEFINE Less == {ss \in Nat \X Nat : ss[1] < ss[2]}
<1>1. IsWellFoundedOn(Less, Nat)
  <2>1. OpToRel(<, Nat) = Less
    BY DEF OpToRel
  <2> QED
    BY <2>1, NatLessThanWellFounded
<1>2. \A x, y \in Nat : y < x => <<y, x>> \in Less
  OBVIOUS
<1> HIDE DEF Less
<1>3. PICK x \in S : \A y \in S : ~ (<<y, x>> \in Less)
  BY <1>1, WFMin
<1>4. ASSUME NEW y \in S
      PROVE  x =< y
  <2>1. x \in Nat /\ y \in Nat
    OBVIOUS
  <2>2. ~ (y < x)
    BY <1>2, <1>3, <2>1
  <2> QED
    BY <2>1, <2>2
<1> QED
  BY <1>4 DEF Min

\* The loops over the list find the first index of S, or none.
LEMMA FirstIndex ==
  ASSUME NEW S, S \subseteq Nat \ {0}
  PROVE  /\ S = {} => FirstOrNone(S) = 0
         /\ S # {} => FirstOrNone(S) \in S /\ \A y \in S : FirstOrNone(S) =< y
  BY LeastElement DEF FirstOrNone

\* Removing the connection at i moves the later ones down.
LEMMA Removing ==
  ASSUME NEW s \in Seq(Device), NEW i \in 1 .. Len(s)
  PROVE  /\ RemoveAt(s, i) \in Seq(Device)
         /\ Len(RemoveAt(s, i)) = Len(s) - 1
         /\ \A j \in 1 .. Len(s) - 1 :
                RemoveAt(s, i)[j] = IF j < i THEN s[j] ELSE s[j + 1]
<1> DEFINE a == SubSeq(s, 1, i - 1)
           b == SubSeq(s, i + 1, Len(s))
<1>1. a \in Seq(Device) /\ Len(a) = i - 1
  BY SubSeqProperties
<1>2. b \in Seq(Device) /\ Len(b) = Len(s) - i
  BY SubSeqProperties
<1>3. /\ \A j \in 1 .. i - 1 : a[j] = s[j]
      /\ \A j \in 1 .. Len(s) - i : b[j] = s[j + i]
  BY SubSeqProperties
<1> HIDE DEF a, b
<1>4. a \o b \in Seq(Device) /\ Len(a \o b) = Len(s) - 1
  BY <1>1, <1>2
<1>5. \A j \in 1 .. Len(s) - 1 :
          (a \o b)[j] = IF j =< i - 1 THEN a[j] ELSE b[j - (i - 1)]
  BY <1>1, <1>2
<1>6. \A j \in 1 .. Len(s) - 1 : (a \o b)[j] = IF j < i THEN s[j] ELSE s[j + 1]
  BY <1>1, <1>2, <1>3, <1>5
<1> QED
  BY <1>4, <1>6 DEF RemoveAt, a, b

-----------------------------------------------------------------------------
(* The selection.                                                          *)

\* pick_primary_index returns the first glasses, or the first connection.
LEMMA PickPrimary ==
  ASSUME NEW l \in Seq(Device), NEW p, p = pick_primary_index(l)
  PROVE  /\ p \in 0 .. Len(l)
         /\ p = 0 <=> Len(l) = 0
         /\ \A i \in 1 .. p - 1 : l[i] \in CanBeSupplemental
         /\ p # 0 /\ l[p] \in CanBeSupplemental => p = 1
<1> DEFINE glasses == {i \in DOMAIN l : l[i] \notin CanBeSupplemental}
<1>1. DOMAIN l = 1 .. Len(l) /\ Len(l) \in Nat
  OBVIOUS
<1>2. CASE glasses # {}
  <2>1. p \in glasses /\ \A y \in glasses : p =< y
    <3>1. p = Min(glasses) /\ glasses \subseteq Nat
      BY <1>1, <1>2 DEF pick_primary_index
    <3> HIDE DEF glasses
    <3> QED
      BY <1>2, <3>1, LeastElement
  <2>2. p \in 1 .. Len(l) /\ l[p] \notin CanBeSupplemental
    BY <1>1, <2>1
  <2>3. ASSUME NEW i \in 1 .. p - 1
        PROVE  l[i] \in CanBeSupplemental
    <3>1. i \in DOMAIN l /\ ~ (p =< i)
      BY <1>1, <2>2
    <3> QED
      BY <2>1, <3>1
  <2> QED
    BY <1>1, <2>2, <2>3
<1>3. CASE glasses = {} /\ Len(l) # 0
  <2>1. p \in DOMAIN l /\ \A y \in DOMAIN l : p =< y
    <3>1. p = FirstOrNone(DOMAIN l)
      BY <1>3 DEF pick_primary_index
    <3>2. DOMAIN l # {} /\ DOMAIN l \subseteq Nat \ {0}
      BY <1>1, <1>3
    <3> QED
      BY <3>1, <3>2, FirstIndex
  <2>2. p = 1
    <3>1. 1 \in DOMAIN l
      BY <1>1, <1>3
    <3>2. p \in Nat \ {0} /\ p =< 1
      BY <1>1, <2>1, <3>1
    <3> QED
      BY <3>2
  <2> QED
    BY <1>1, <1>3, <2>2
<1>4. CASE Len(l) = 0
  BY <1>1, <1>4, FirstIndex DEF pick_primary_index
<1> QED
  BY <1>2, <1>3, <1>4

\* The primary is the first pair of glasses.
LEMMA FirstGlasses ==
  ASSUME NEW l \in Seq(Device), NEW k \in 1 .. Len(l), l[k] \notin CanBeSupplemental,
         \A i \in 1 .. k - 1 : l[i] \in CanBeSupplemental
  PROVE  pick_primary_index(l) = k
<1> DEFINE glasses == {i \in DOMAIN l : l[i] \notin CanBeSupplemental}
           p == Min(glasses)
<1>1. k \in glasses /\ glasses \subseteq Nat
  OBVIOUS
<1>2. p \in glasses /\ p =< k
  <2> HIDE DEF glasses
  <2> QED
    BY <1>1, LeastElement
<1>3. p = k
  <2> HIDE DEF p
  <2>1. p \in 1 .. Len(l) /\ l[p] \notin CanBeSupplemental
    BY <1>2
  <2>2. p \notin 1 .. k - 1
    BY <2>1
  <2> QED
    BY <1>2, <2>1, <2>2
<1> QED
  BY <1>1, <1>3 DEF pick_primary_index

\* pick_supplemental_index returns another connection that can be supplemental,
\* if there is one.
LEMMA PickSupplemental ==
  ASSUME NEW l \in Seq(Device), NEW p, NEW s, s = pick_supplemental_index(l, p)
  PROVE  /\ s \in 0 .. Len(l)
         /\ s # 0 => s # p /\ l[s] \in CanBeSupplemental
         /\ s = 0 => \A i \in 1 .. Len(l) : i # p => l[i] \notin CanBeSupplemental
<1> DEFINE others == {i \in DOMAIN l : i # p /\ l[i] \in CanBeSupplemental}
<1>1. DOMAIN l = 1 .. Len(l) /\ Len(l) \in Nat
  OBVIOUS
<1>2. others = {} => s = 0
  BY <1>1, FirstIndex DEF pick_supplemental_index
<1>3. others # {} => s \in others
  BY <1>1, FirstIndex DEF pick_supplemental_index
<1> QED
  BY <1>1, <1>2, <1>3

\* handle_device_added: a selection that exists stays, for the new connection is
\* the last one.
LEMMA AddedSelects ==
  ASSUME NEW l, NEW p, NEW s, Selects(l, p, s),
         NEW d \in Device, \A e \in ToSet(l) : ModelOf[e] # ModelOf[d],
         NEW l2, l2 = Append(l, d),
         NEW p2, p2 = IF p = 0 THEN pick_primary_index(l2) ELSE p,
         NEW s2, s2 = IF s = 0 THEN pick_supplemental_index(l2, p2) ELSE s
  PROVE  Selects(l2, p2, s2)
<1>1. /\ l \in Seq(Device) /\ Len(l) \in Nat
      /\ l2 \in Seq(Device) /\ Len(l2) = Len(l) + 1
  BY DEF Selects
<1>2. /\ \A i \in 1 .. Len(l) : l2[i] = l[i]
      /\ l2[Len(l2)] = d
  BY <1>1
<1>3. /\ p2 \in 0 .. Len(l2) /\ p2 # 0
      /\ \A i \in 1 .. p2 - 1 : l2[i] \in CanBeSupplemental
      /\ p2 # 0 /\ l2[p2] \in CanBeSupplemental => p2 = 1
  <2>1. CASE p = 0
    <3>1. p2 = pick_primary_index(l2) /\ Len(l2) # 0
      BY <1>1, <2>1
    <3> QED
      BY <1>1, <3>1, PickPrimary
  <2>2. CASE p # 0
    BY <1>1, <1>2, <2>2 DEF Selects
  <2> QED
    BY <2>1, <2>2
<1>4. /\ s2 \in 0 .. Len(l2)
      /\ s2 # 0 => s2 # p2 /\ l2[s2] \in CanBeSupplemental
      /\ s2 = 0 => \A i \in 1 .. Len(l2) : i # p2 => l2[i] \notin CanBeSupplemental
  <2>1. CASE s = 0
    BY <1>1, <2>1, PickSupplemental
  <2>2. CASE s # 0
    BY <1>1, <1>2, <2>2 DEF Selects
  <2> QED
    BY <2>1, <2>2
<1>5. ASSUME NEW i \in 1 .. Len(l2), NEW j \in 1 .. Len(l2),
             ModelOf[l2[i]] = ModelOf[l2[j]]
      PROVE  i = j
  <2>1. \A k \in 1 .. Len(l) : ModelOf[l[k]] # ModelOf[d]
    BY <1>1 DEF ToSet
  <2> QED
    BY <1>1, <1>2, <1>5, <2>1 DEF Selects
<1> QED
  BY <1>1, <1>3, <1>4, <1>5 DEF Selects

\* handle_device_removed: both are selected again.
LEMMA RemovedSelects ==
  ASSUME NEW l, NEW p, NEW s, Selects(l, p, s), NEW k \in 1 .. Len(l),
         NEW l2, l2 = RemoveAt(l, k),
         NEW p2, p2 = pick_primary_index(l2),
         NEW s2, s2 = pick_supplemental_index(l2, p2)
  PROVE  Selects(l2, p2, s2)
<1>1. l \in Seq(Device) /\ Len(l) \in Nat
  BY DEF Selects
<1>2. /\ l2 \in Seq(Device) /\ Len(l2) = Len(l) - 1
      /\ \A j \in 1 .. Len(l2) : l2[j] = IF j < k THEN l[j] ELSE l[j + 1]
  BY <1>1, Removing
<1>3. ASSUME NEW i \in 1 .. Len(l2), NEW j \in 1 .. Len(l2),
             ModelOf[l2[i]] = ModelOf[l2[j]]
      PROVE  i = j
  <2>1. PICK m \in 1 .. Len(l) : l2[i] = l[m] /\ m = IF i < k THEN i ELSE i + 1
    BY <1>1, <1>2
  <2>2. PICK n \in 1 .. Len(l) : l2[j] = l[n] /\ n = IF j < k THEN j ELSE j + 1
    BY <1>1, <1>2
  <2>3. m = n
    BY <1>3, <2>1, <2>2 DEF Selects
  <2> QED
    BY <1>1, <1>2, <2>1, <2>2, <2>3
<1> QED
  BY <1>2, <1>3, PickPrimary, PickSupplemental DEF Selects

\* Appending a connection adds it to those in the list.
LEMMA AddedConnections ==
  ASSUME NEW l \in Seq(Device), NEW d \in Device
  PROVE  ToSet(Append(l, d)) = ToSet(l) \cup {d}
<1>1. /\ Len(Append(l, d)) = Len(l) + 1 /\ Len(l) \in Nat
      /\ DOMAIN Append(l, d) = 1 .. Len(l) + 1 /\ DOMAIN l = 1 .. Len(l)
      /\ \A i \in 1 .. Len(l) : Append(l, d)[i] = l[i]
      /\ Append(l, d)[Len(l) + 1] = d
  OBVIOUS
<1>2. ASSUME NEW e \in ToSet(Append(l, d)) PROVE e \in ToSet(l) \cup {d}
  <2>1. PICK i \in 1 .. Len(l) + 1 : e = Append(l, d)[i]
    BY <1>1 DEF ToSet
  <2>2. i \in 1 .. Len(l) \/ i = Len(l) + 1
    BY <1>1
  <2> QED
    BY <1>1, <2>1, <2>2 DEF ToSet
<1>3. ASSUME NEW e \in ToSet(l) PROVE e \in ToSet(Append(l, d))
  <2>1. PICK i \in 1 .. Len(l) : e = l[i]
    BY <1>1 DEF ToSet
  <2>2. i \in 1 .. Len(l) + 1 /\ e = Append(l, d)[i]
    BY <1>1, <2>1
  <2> QED
    BY <1>1, <2>2 DEF ToSet
<1>4. d \in ToSet(Append(l, d))
  <2>1. Len(l) + 1 \in 1 .. Len(l) + 1
    BY <1>1
  <2> QED
    BY <1>1, <2>1 DEF ToSet
<1> QED
  BY <1>2, <1>3, <1>4

\* A connection is in the list once, so that it is gone when it was removed.
LEMMA RemovedConnections ==
  ASSUME NEW l, NEW p, NEW s, Selects(l, p, s), NEW k \in 1 .. Len(l)
  PROVE  /\ ToSet(RemoveAt(l, k)) = ToSet(l) \ {l[k]}
         /\ k # 1 => RemoveAt(l, k)[1] = l[1]
         /\ l[k] \in Device
<1> DEFINE l2 == RemoveAt(l, k)
<1>1. /\ l \in Seq(Device) /\ Len(l) \in Nat /\ DOMAIN l = 1 .. Len(l)
      /\ \A i, j \in 1 .. Len(l) : l[i] = l[j] => i = j
  BY DEF Selects
<1> HIDE DEF l2
<1>2. /\ l2 \in Seq(Device) /\ Len(l2) = Len(l) - 1 /\ DOMAIN l2 = 1 .. Len(l) - 1
      /\ \A j \in 1 .. Len(l) - 1 : l2[j] = IF j < k THEN l[j] ELSE l[j + 1]
  <2>1. /\ l2 \in Seq(Device) /\ Len(l2) = Len(l) - 1
        /\ \A j \in 1 .. Len(l) - 1 : l2[j] = IF j < k THEN l[j] ELSE l[j + 1]
    BY <1>1, Removing DEF l2
  <2> QED
    BY <2>1
<1>3. ASSUME NEW e \in ToSet(l2) PROVE e \in ToSet(l) \ {l[k]}
  <2>1. PICK j \in 1 .. Len(l) - 1 : e = l2[j]
    BY <1>2 DEF ToSet
  <2>2. PICK i \in 1 .. Len(l) : e = l[i] /\ i # k
    BY <1>1, <1>2, <2>1
  <2> QED
    BY <1>1, <2>2 DEF ToSet
<1>4. ASSUME NEW e \in ToSet(l) \ {l[k]} PROVE e \in ToSet(l2)
  <2>1. PICK i \in 1 .. Len(l) : e = l[i] /\ i # k
    BY <1>1 DEF ToSet
  <2>2. PICK j \in 1 .. Len(l) - 1 : j = IF i < k THEN i ELSE i - 1
    BY <1>1, <2>1
  <2>3. e = l2[j]
    BY <1>1, <1>2, <2>1, <2>2
  <2> QED
    BY <1>2, <2>3 DEF ToSet
<1>5. k # 1 => l2[1] = l[1]
  BY <1>1, <1>2
<1> QED
  BY <1>1, <1>3, <1>4, <1>5 DEF l2

\* Selecting again after a removal keeps the primary if it is glasses that stay.
LEMMA GlassesKept ==
  ASSUME NEW l, NEW p, NEW s, Selects(l, p, s), NEW i \in 1 .. Len(l),
         p # 0, i # p, l[p] \notin CanBeSupplemental,
         NEW l2, l2 = RemoveAt(l, i), NEW p2, p2 = pick_primary_index(l2)
  PROVE  p2 \in 1 .. Len(l2) /\ l2[p2] = l[p]
<1> DEFINE k == IF p < i THEN p ELSE p - 1
<1>1. /\ l \in Seq(Device) /\ p \in 1 .. Len(l)
      /\ \A j \in 1 .. p - 1 : l[j] \in CanBeSupplemental
  BY DEF Selects
<1>2. /\ l2 \in Seq(Device) /\ Len(l2) = Len(l) - 1
      /\ \A j \in 1 .. Len(l) - 1 : l2[j] = IF j < i THEN l[j] ELSE l[j + 1]
  BY <1>1, Removing
<1>3. /\ k \in 1 .. Len(l2) /\ l2[k] = l[p]
      /\ \A j \in 1 .. k - 1 : l2[j] \in CanBeSupplemental
  <2>1. CASE p < i
    BY <1>1, <1>2, <2>1
  <2>2. CASE i < p
    <3>1. k = p - 1 /\ k \in 1 .. Len(l2) /\ ~ (k < i)
      BY <1>1, <1>2, <2>2
    <3>2. ASSUME NEW j \in 1 .. k - 1 PROVE l2[j] \in CanBeSupplemental
      <4>1. l2[j] = l[IF j < i THEN j ELSE j + 1]
        BY <1>1, <1>2, <3>1
      <4>2. (IF j < i THEN j ELSE j + 1) \in 1 .. p - 1
        BY <1>1, <3>1
      <4> QED
        BY <1>1, <4>1, <4>2
    <3>3. l2[k] = l[p]
      BY <1>1, <1>2, <3>1
    <3> QED
      BY <3>1, <3>2, <3>3
  <2> QED
    BY <1>1, <2>1, <2>2
<1> HIDE DEF k
<1>4. p2 = k
  BY <1>2, <1>3, FirstGlasses
<1> QED
  BY <1>3, <1>4

-----------------------------------------------------------------------------
(* The threads.                                                            *)

\* Hotplug: connections come and go while the block_on_device thread may be in
\* the pool, and a supplemental N may join the session of P.
LEMMA HotplugSession ==
  ASSUME IInv,
         NEW Fresh, \A e \in Fresh : ~InUse(e) /\ e \notin ToSet(list),
         ToSet(list') \subseteq ToSet(list) \cup Fresh,
         list # <<>> /\ list[1] \in ToSet(list') => list'[1] = list[1],
         NEW N, N \subseteq (ToSet(list') \cap CanBeSupplemental) \ thread_running,
         thread' = [c \in Device |-> IF c \in N THEN "starting" ELSE thread[c]],
         \A c \in ToSet(list') : c \in thread_running' <=> c \in thread_running \cup N,
         N # {} => \E P \in ToSet(list) \cap thread_running :
                      P \in CanBeSupplemental => list[1] = P,
         ToSet(list) \cup Fresh \subseteq Device,
         UNCHANGED blocker
  PROVE  Session'
<1> USE DEF IInv, Session
<1>1. RunningFlagExact'
  <2> SUFFICES ASSUME NEW c \in ToSet(list')
               PROVE  c \in thread_running' <=> thread'[c] # "none"
    BY DEF RunningFlagExact
  <2>1. CASE c \in N
    BY <2>1
  <2>2. CASE c \notin N /\ c \in ToSet(list)
    BY <2>2 DEF RunningFlagExact
  <2>3. CASE c \notin N /\ c \in Fresh
    BY <2>3 DEF InUse, TypeOK
  <2> QED
    BY <2>1, <2>2, <2>3
<1>2. GlassesInSession'
  <2> SUFFICES ASSUME NEW c \in ToSet(list') \ CanBeSupplemental, thread'[c] # "none"
               PROVE  blocker.pc \in {"started", "join"} /\ blocker.p = c
    BY DEF GlassesInSession
  <2>1. thread[c] # "none"
    OBVIOUS
  <2> QED
    BY <2>1 DEF GlassesInSession, InUse
<1>3. ASSUME blocker.p \in ToSet(list')
      PROVE  blocker.p \in ToSet(list) /\ list # <<>>
  BY <1>3 DEF InUse, ToSet
<1>4. ASSUME blocker.pc \in {"started", "join", "stop_supplemental", "join_supplemental"},
             blocker.p \in ToSet(list') \cap CanBeSupplemental
      PROVE  list'[1] = blocker.p
  BY <1>3, <1>4 DEF PrimaryEnded
<1>5. ASSUME blocker.pc \in {"stop_supplemental", "join_supplemental"},
             blocker.p \in ToSet(list')
      PROVE  thread'[blocker.p] = "none"
  <2>1. thread[blocker.p] = "none"
    BY <1>3, <1>5 DEF PrimaryEnded
  <2>2. ASSUME blocker.p \in N PROVE FALSE
    <3>1. list[1] = blocker.p
      BY <1>3, <1>5, <2>2 DEF PrimaryEnded
    <3>2. PICK P \in ToSet(list) \cap thread_running :
              P \in CanBeSupplemental => list[1] = P
      BY <2>2
    <3>3. thread[P] # "none"
      BY <3>2 DEF RunningFlagExact
    <3>4. P \in CanBeSupplemental
      BY <1>5, <3>2, <3>3 DEF GlassesInSession
    <3> QED
      BY <2>1, <3>1, <3>2, <3>3, <3>4
  <2>3. blocker.p \in Device /\ blocker.p \notin N
    BY <1>3, <1>5, <2>2
  <2> QED
    BY <2>1, <2>3
<1>6. PrimaryEnded'
  BY <1>4, <1>5 DEF PrimaryEnded
<1> QED
  BY <1>1, <1>2, <1>6

\* The threads of the connections in N are started.
Starts(N, act, running) ==
    /\ active' = act \cup N
    /\ thread_running' = running \cup N
    /\ thread' = [c \in Device |-> IF c \in N THEN "starting" ELSE thread[c]]

\* What joining a session may start: the thread of s, or nothing.
LEMMA JoiningStarts ==
  ASSUME NEW s \in Device, NEW conn \in [Driver -> BOOLEAN], NEW act, NEW running,
         thread \in [Device -> ThreadState],
         JoinSession(s, conn, act, running)
  PROVE  /\ connected' \in [Driver -> BOOLEAN]
         /\ \E N \in SUBSET ({s} \ running) : Starts(N, act, running)
<1>1. PICK ok \in BOOLEAN :
         /\ connected' = [conn EXCEPT ![DriverOf[s]] = ok]
         /\ StartThreads(IF ok THEN {s} ELSE {}, act, running, thread)
  BY DEF JoinSession, ConnectResults
<1>2. connected' \in [Driver -> BOOLEAN]
  BY <1>1
<1> DEFINE N == (IF ok THEN {s} ELSE {}) \ (running \cup {NoDevice})
<1>3. N \in SUBSET ({s} \ running) /\ Starts(N, act, running)
  BY <1>1 DEF StartThreads, Starts
<1> QED
  BY <1>2, <1>3

\* Otherwise no thread is started.
LEMMA NoneStart ==
  ASSUME NEW conn, NEW act, NEW running,
         thread \in [Device -> ThreadState],
         NoSession(conn, act, running)
  PROVE  connected' = conn /\ Starts({}, act, running)
  BY DEF NoSession, Starts

\* Steps that neither change the list nor start, end or wait for a thread.
LEMMA QuietIInv ==
  ASSUME IInv,
         UNCHANGED <<list, primary_index, supplemental_index, thread_running, thread,
                     blocker>>,
         active' \subseteq active, connected' \in [Driver -> BOOLEAN],
         plugged' \subseteq Device, dangling' \subseteq Device
  PROVE  IInv'
<1>1. TypeOK'
  BY DEF IInv, TypeOK
<1>2. Selects(list, primary_index, supplemental_index)'
  BY DEF IInv, Selects
<1>3. Session'
  BY DEF IInv, Session, RunningFlagExact, GlassesInSession, PrimaryEnded
<1> QED
  BY <1>1, <1>2, <1>3 DEF IInv

\* DEVICE_ARRIVED.
LEMMA ArriveIInv ==
  ASSUME IInv, NEW d \in Device, Arrive(d)
  PROVE  IInv'
<1> USE PoolAssumption
<1>1. PICK conn \in ProbeResults(d) : connection_pool_handle_device_added(d, conn)
  BY DEF Arrive
<1>2. conn \in [Driver -> BOOLEAN]
  BY DEF ProbeResults, IInv, TypeOK
<1>3. /\ plugged' \subseteq Device /\ dangling' \subseteq Device /\ UNCHANGED blocker
      /\ ~InUse(d) /\ d \notin ToSet(list)
  BY DEF Arrive, IInv, TypeOK
<1>4. CASE ModelInPool(ModelOf[d])
  BY <1>1, <1>2, <1>3, <1>4, QuietIInv
     DEF connection_pool_handle_device_added, NoSession
<1>5. CASE ~ModelInPool(ModelOf[d])
  <2> DEFINE p == At(list', primary_index')
             s == At(list', supplemental_index')
             joins == supplemental_index = 0 /\ s # NoDevice /\ InSession(p)
  <2>1. /\ list' = Append(list, d)
        /\ primary_index' = IF primary_index = 0 THEN pick_primary_index(list')
                                                  ELSE primary_index
        /\ supplemental_index' = IF supplemental_index = 0
                                 THEN pick_supplemental_index(list', primary_index')
                                 ELSE supplemental_index
        /\ IF joins THEN JoinSession(s, conn, active, thread_running)
                    ELSE NoSession(conn, active, thread_running)
    BY <1>1, <1>5 DEF connection_pool_handle_device_added
  <2>2. Selects(list', primary_index', supplemental_index')
    BY <1>5, <2>1, AddedSelects DEF IInv, ModelInPool
  <2>3. list \in Seq(Device) /\ ToSet(list') = ToSet(list) \cup {d}
    BY <2>1, AddedConnections DEF IInv, TypeOK
  <2>4. list # <<>> => list'[1] = list[1]
    BY <2>1, <2>3
  <2>5. ToSet(list) \subseteq Device
    BY <2>3 DEF ToSet
  <2>6. \E N \in SUBSET ((ToSet(list') \cap CanBeSupplemental) \ thread_running) :
            /\ connected' \in [Driver -> BOOLEAN]
            /\ Starts(N, active, thread_running)
            /\ N # {} => joins
    <3>1. CASE joins
      <4>1. s \in ToSet(list') \cap CanBeSupplemental
        <5>1. supplemental_index' \in DOMAIN list' /\ s = list'[supplemental_index']
          BY <3>1 DEF At
        <5>2. supplemental_index' # 0
          BY <2>2, <5>1 DEF Selects
        <5> QED
          BY <2>2, <5>1, <5>2 DEF Selects, ToSet
      <4>2. s \in Device /\ thread \in [Device -> ThreadState]
        BY <2>3, <2>5, <4>1 DEF IInv, TypeOK
      <4> HIDE DEF s
      <4>3. JoinSession(s, conn, active, thread_running)
        BY <2>1, <3>1
      <4> HIDE DEF joins
      <4>4. PICK N \in SUBSET ({s} \ thread_running) : Starts(N, active, thread_running)
        BY <1>2, <4>2, <4>3, JoiningStarts
      <4>5. connected' \in [Driver -> BOOLEAN]
        BY <1>2, <4>2, <4>3, JoiningStarts
      <4> QED
        BY <3>1, <4>1, <4>4, <4>5
    <3>2. CASE ~joins
      <4>1. NoSession(conn, active, thread_running)
        BY <2>1, <3>2
      <4>2. thread \in [Device -> ThreadState]
        BY DEF IInv, TypeOK
      <4> WITNESS {} \in SUBSET ((ToSet(list') \cap CanBeSupplemental) \ thread_running)
      <4> QED
        BY <1>2, <4>1, <4>2, NoneStart
    <3> QED
      BY <3>1, <3>2
  <2>7. PICK N \in SUBSET ((ToSet(list') \cap CanBeSupplemental) \ thread_running) :
            /\ connected' \in [Driver -> BOOLEAN]
            /\ Starts(N, active, thread_running)
            /\ N # {} => joins
    BY <2>6
  <2>8. TypeOK'
    BY <1>3, <2>2, <2>3, <2>7 DEF IInv, TypeOK, Selects, Starts, ThreadState
  <2>9. N # {} => \E P \in ToSet(list) \cap thread_running :
                    P \in CanBeSupplemental => list[1] = P
    <3> SUFFICES ASSUME N # {}
                 PROVE  p \in ToSet(list) \cap thread_running
                        /\ (p \in CanBeSupplemental => list[1] = p)
      OBVIOUS
    <3>1. p \in thread_running /\ p \in ToSet(list)
      BY <2>7 DEF InSession, IInv, TypeOK
    <3>2. p = list'[primary_index'] /\ primary_index' # 0
      BY <2>2, <2>5, <3>1 DEF At, Selects
    <3>3. p \in CanBeSupplemental => list'[1] = p
      BY <2>2, <3>2 DEF Selects
    <3>4. list # <<>>
      BY <3>1 DEF ToSet
    <3> QED
      BY <2>4, <3>1, <3>3, <3>4
  <2>10. Session'
    <3>1. /\ \A e \in {d} : ~InUse(e) /\ e \notin ToSet(list)
          /\ ToSet(list') \subseteq ToSet(list) \cup {d}
          /\ ToSet(list) \cup {d} \subseteq Device
      BY <1>3, <2>3, <2>5
    <3>2. /\ thread' = [c \in Device |-> IF c \in N THEN "starting" ELSE thread[c]]
          /\ \A c \in ToSet(list') : c \in thread_running' <=> c \in thread_running \cup N
      BY <2>7 DEF Starts
    <3> HIDE DEF joins
    <3> QED
      BY <1>3, <2>4, <2>9, <3>1, <3>2, HotplugSession
  <2> QED
    BY <2>2, <2>8, <2>10 DEF IInv
<1> QED
  BY <1>4, <1>5

\* DEVICE_LEFT.
LEMMA LeaveIInv ==
  ASSUME IInv, NEW d \in Device, Leave(d)
  PROVE  IInv'
<1> USE PoolAssumption
<1> DEFINE drv == DriverOf[d]
           i == find_driver_connection_index(drv)
           c == At(list, i)
           s == At(list', supplemental_index')
           joins == /\ InSession(Primary) /\ i # primary_index
                    /\ supplemental_index' # 0
<1>1. plugged' \subseteq Device /\ dangling' \subseteq Device /\ UNCHANGED blocker
  BY DEF Leave, IInv, TypeOK
<1>2. CASE ~ModelInPool(ModelOf[d])
  BY <1>1, <1>2, QuietIInv DEF Leave, pool, IInv, TypeOK
<1>3. CASE ModelInPool(ModelOf[d])
  <2>1. PICK conn \in [Driver -> BOOLEAN] :
           /\ i # 0
           /\ list' = RemoveAt(list, i)
           /\ primary_index' = pick_primary_index(list')
           /\ supplemental_index' = pick_supplemental_index(list', primary_index')
           /\ \/ joins /\ JoinSession(s, conn, active \ {c}, thread_running \ {c})
              \/ NoSession(conn, active \ {c}, thread_running \ {c})
    <3>1. connection_pool_handle_device_removed(drv)
      BY <1>3 DEF Leave
    <3> QED
      BY <3>1 DEF connection_pool_handle_device_removed
  <2>2. i \in 1 .. Len(list) /\ list \in Seq(Device)
    <3>1. list \in Seq(Device)
      BY DEF IInv, TypeOK
    <3>2. {k \in DOMAIN list : DriverOf[list[k]] = drv} \subseteq Nat \ {0}
      BY <3>1
    <3>3. i \in {k \in DOMAIN list : DriverOf[list[k]] = drv}
      BY <2>1, <3>2, FirstIndex DEF find_driver_connection_index
    <3> QED
      BY <3>1, <3>3
  <2>3. c = list[i] /\ c \in Device
    <3>1. c = list[i]
      BY <2>2 DEF At
    <3> QED
      BY <2>2, <3>1
  <2> HIDE DEF i, c
  <2>4. Selects(list', primary_index', supplemental_index')
    BY <2>1, <2>2, RemovedSelects DEF IInv
  <2>5. /\ ToSet(list') = ToSet(list) \ {c}
        /\ i # 1 => list'[1] = list[1]
    BY <2>1, <2>2, <2>3, RemovedConnections DEF IInv
  <2>6. ToSet(list) \subseteq Device
    BY <2>2 DEF ToSet
  <2>7. list # <<>> /\ list[1] \in ToSet(list') => list'[1] = list[1]
    BY <2>3, <2>5
  <2>8. \E N \in SUBSET ((ToSet(list') \cap CanBeSupplemental) \ (thread_running \ {c})) :
            /\ connected' \in [Driver -> BOOLEAN]
            /\ Starts(N, active \ {c}, thread_running \ {c})
            /\ N # {} => joins
    <3>1. CASE joins /\ JoinSession(s, conn, active \ {c}, thread_running \ {c})
      <4>1. s \in ToSet(list') \cap CanBeSupplemental
        <5>1. supplemental_index' \in DOMAIN list' /\ s = list'[supplemental_index']
          BY <2>4, <3>1 DEF At, Selects
        <5> QED
          BY <2>4, <3>1, <5>1 DEF Selects, ToSet
      <4>2. s \in Device /\ thread \in [Device -> ThreadState]
        BY <2>5, <2>6, <4>1 DEF IInv, TypeOK
      <4> HIDE DEF s, joins
      <4>3. PICK N \in SUBSET ({s} \ (thread_running \ {c})) :
               Starts(N, active \ {c}, thread_running \ {c})
        BY <3>1, <4>2, JoiningStarts
      <4>4. connected' \in [Driver -> BOOLEAN]
        BY <3>1, <4>2, JoiningStarts
      <4> QED
        BY <3>1, <4>1, <4>3, <4>4
    <3>2. CASE NoSession(conn, active \ {c}, thread_running \ {c})
      <4>1. thread \in [Device -> ThreadState]
        BY DEF IInv, TypeOK
      <4> HIDE DEF joins
      <4> WITNESS {} \in SUBSET ((ToSet(list') \cap CanBeSupplemental)
                                     \ (thread_running \ {c}))
      <4> QED
        BY <3>2, <4>1, NoneStart
    <3> QED
      BY <2>1, <3>1, <3>2
  <2>9. PICK N \in SUBSET ((ToSet(list') \cap CanBeSupplemental) \ (thread_running \ {c})) :
            /\ connected' \in [Driver -> BOOLEAN]
            /\ Starts(N, active \ {c}, thread_running \ {c})
            /\ N # {} => joins
    BY <2>8
  <2>10. TypeOK'
    BY <1>1, <2>4, <2>5, <2>6, <2>9 DEF IInv, TypeOK, Selects, Starts, ThreadState
  <2>11. N # {} => \E P \in ToSet(list) \cap thread_running :
                     P \in CanBeSupplemental => list[1] = P
    <3> SUFFICES ASSUME joins
                 PROVE  Primary \in ToSet(list) \cap thread_running
                        /\ (Primary \in CanBeSupplemental => list[1] = Primary)
      BY <2>9
    <3>1. Primary \in thread_running /\ Primary \in ToSet(list)
      BY DEF InSession, IInv, TypeOK
    <3>2. Primary = list[primary_index] /\ primary_index # 0
      BY <2>2, <2>6, <3>1 DEF Primary, At, IInv, Selects
    <3> QED
      BY <3>1, <3>2 DEF IInv, Selects
  <2>12. Session'
    <3>1. /\ ToSet(list') \subseteq ToSet(list) \cup {}
          /\ ToSet(list) \cup {} \subseteq Device
          /\ N \subseteq (ToSet(list') \cap CanBeSupplemental) \ thread_running
      BY <2>5, <2>6, <2>9
    <3>2. /\ thread' = [x \in Device |-> IF x \in N THEN "starting" ELSE thread[x]]
          /\ \A x \in ToSet(list') : x \in thread_running' <=> x \in thread_running \cup N
      BY <2>5, <2>9 DEF Starts
    <3> HIDE DEF joins
    <3> QED
      BY <1>1, <2>7, <2>11, <3>1, <3>2, HotplugSession
  <2> QED
    BY <2>4, <2>10, <2>12 DEF IInv
<1> QED
  BY <1>2, <1>3

\* The thread of a connection proceeds, or ends and clears its flag.
LEMMA ThreadIInv ==
  ASSUME IInv, NEW c \in Device, ThreadBlocks(c) \/ ThreadUnblocks(c) \/ ThreadExits(c)
  PROVE  IInv'
<1>1. /\ UNCHANGED <<list, primary_index, supplemental_index, active, connected,
                     plugged, blocker>>
      /\ \A e \in Device \ {c} : thread'[e] = thread[e]
      /\ thread' \in [Device -> ThreadState]
      /\ dangling' \subseteq Device
      /\ thread[c] # "none"
  BY DEF IInv, TypeOK, ThreadState, pool, ThreadBlocks, ThreadUnblocks, ThreadExits
<1>2. ToSet(list) \subseteq Device
  BY DEF IInv, TypeOK, ToSet
<1>3. /\ thread'[c] = "none" => thread_running' = thread_running \ {c}
      /\ thread'[c] # "none" => thread_running' = thread_running
  BY DEF IInv, TypeOK, pool, ThreadBlocks, ThreadUnblocks, ThreadExits
<1>4. TypeOK'
  BY <1>1, <1>3 DEF IInv, TypeOK
<1>5. Selects(list, primary_index, supplemental_index)'
  BY <1>1 DEF IInv, Selects
<1>6. RunningFlagExact'
  BY <1>1, <1>2, <1>3 DEF IInv, Session, RunningFlagExact
<1>7. GlassesInSession'
  BY <1>1, <1>2 DEF IInv, Session, GlassesInSession
<1>8. PrimaryEnded'
  BY <1>1, <1>2 DEF IInv, Session, PrimaryEnded
<1> QED
  BY <1>4, <1>5, <1>6, <1>7, <1>8 DEF IInv, Session

-----------------------------------------------------------------------------
(* The block_on_device thread.                                             *)

\* Its steps up to the start of a session change no thread.
LEMMA ConnectIInv ==
  ASSUME IInv,
         connection_pool_connect_active \/ ConnectPrimary \/ ConnectSupplemental
  PROVE  IInv'
<1> USE PoolAssumption
<1>1. ToSet(list) \subseteq Device /\ Primary \in MaybeDevice /\ Supplemental \in MaybeDevice
  BY DEF IInv, TypeOK, ToSet, Primary, Supplemental, At, MaybeDevice
<1>2. /\ UNCHANGED <<list, primary_index, supplemental_index, active, thread_running,
                     thread, plugged>>
      /\ connected' \in [Driver -> BOOLEAN]
      /\ dangling' \subseteq Device
      /\ blocker' \in Blocker
      /\ blocker.pc \in {"idle", "connect_primary", "connect_supplemental"}
      /\ blocker'.pc \in {"idle", "connect_primary", "connect_supplemental", "connected"}
  <2>1. CASE connection_pool_connect_active
    <3>1. /\ UNCHANGED <<pool, thread, connected, plugged, dangling>>
          /\ blocker.pc = "idle"
          /\ blocker' = [pc |-> "connect_primary", p |-> Primary, s |-> Supplemental]
      BY <2>1 DEF connection_pool_connect_active
    <3>2. blocker' \in Blocker
      BY <1>1, <3>1 DEF Blocker
    <3>3. connected \in [Driver -> BOOLEAN] /\ dangling \subseteq Device
      BY DEF IInv, TypeOK
    <3> QED
      BY <3>1, <3>2, <3>3 DEF pool
  <2>2. CASE ConnectPrimary
    <3>1. blocker \in Blocker /\ connected \in [Driver -> BOOLEAN] /\ dangling \subseteq Device
      BY DEF IInv, TypeOK
    <3>2. PICK ok \in BOOLEAN :
             connected' = [connected EXCEPT ![DriverOf[blocker.p]] = ok]
      BY <2>2 DEF ConnectPrimary, ConnectResults
    <3>3. /\ UNCHANGED <<list, primary_index, supplemental_index, active, thread_running,
                         thread, plugged>>
          /\ blocker.pc = "connect_primary"
          /\ dangling' = dangling \cup ({blocker.p} \ (ToSet(list) \cup {NoDevice}))
          /\ blocker' \in {Idle, [blocker EXCEPT !.pc = "connect_supplemental"],
                           [Idle EXCEPT !.pc = "connected"]}
      BY <2>2 DEF ConnectPrimary, Touched, pool
    <3>4. /\ blocker' \in Blocker
          /\ blocker'.pc \in {"idle", "connect_primary", "connect_supplemental", "connected"}
      BY <3>1, <3>3 DEF Blocker, MaybeDevice, Idle
    <3> QED
      BY <3>1, <3>2, <3>3, <3>4 DEF Blocker, MaybeDevice
  <2>3. CASE ConnectSupplemental
    BY <2>3 DEF ConnectSupplemental, ConnectResults, Touched, Idle, pool, IInv, TypeOK,
                Blocker, MaybeDevice
  <2> QED
    BY <2>1, <2>2, <2>3
<1>3. TypeOK'
  BY <1>2 DEF IInv, TypeOK
<1>4. Selects(list, primary_index, supplemental_index)'
  BY <1>2 DEF IInv, Selects
<1>5. Session'
  BY <1>2 DEF IInv, Session, RunningFlagExact, GlassesInSession, PrimaryEnded
<1> QED
  BY <1>3, <1>4, <1>5 DEF IInv

\* The session starts: no glasses have a thread yet, and p is the primary.
LEMMA BlockOnActiveIInv ==
  ASSUME IInv, connection_pool_block_on_active
  PROVE  IInv'
<1> USE PoolAssumption
<1> DEFINE S == IF Supplemental # NoDevice /\ connected[DriverOf[Supplemental]]
                THEN {Supplemental} ELSE {}
           N == ({Primary} \cup S) \ (thread_running \cup {NoDevice})
<1>1. /\ list \in Seq(Device) /\ DOMAIN list = 1 .. Len(list)
      /\ primary_index \in 0 .. Len(list) /\ supplemental_index \in 0 .. Len(list)
  BY DEF IInv, TypeOK
<1>2. /\ ToSet(list) \subseteq Device
      /\ {Primary, Supplemental} \subseteq ToSet(list) \cup {NoDevice}
  BY <1>1 DEF ToSet, Primary, Supplemental, At
<1>3. /\ Primary \in CanBeSupplemental => list[1] = Primary
      /\ Supplemental # NoDevice => Supplemental \in CanBeSupplemental
  BY <1>1 DEF IInv, Selects, Primary, Supplemental, At
<1>4. /\ UNCHANGED <<list, primary_index, supplemental_index, connected, plugged, dangling>>
      /\ active' = active \cup N
      /\ thread_running' = thread_running \cup N
      /\ thread' = [c \in Device |-> IF c \in N THEN "starting" ELSE thread[c]]
      /\ blocker' = [pc |-> "started", p |-> Primary, s |-> Supplemental]
      /\ blocker.pc = "connected"
  BY DEF connection_pool_block_on_active, StartThreads
<1>5. /\ N \subseteq ToSet(list) /\ N \cap thread_running = {}
      /\ N \ {Primary} \subseteq CanBeSupplemental
  BY <1>2, <1>3
<1> HIDE DEF N, S
<1>6. TypeOK'
  BY <1>2, <1>4, <1>5 DEF IInv, TypeOK, Blocker, MaybeDevice, ThreadState
<1>7. Selects(list, primary_index, supplemental_index)'
  BY <1>4 DEF IInv, Selects
<1>8. RunningFlagExact'
  BY <1>2, <1>4, <1>5 DEF IInv, Session, RunningFlagExact
<1>9. GlassesInSession'
  <2> SUFFICES ASSUME NEW c \in ToSet(list) \ CanBeSupplemental, thread'[c] # "none"
               PROVE  c = Primary
    BY <1>4 DEF GlassesInSession
  <2> QED
    BY <1>2, <1>4, <1>5 DEF IInv, Session, GlassesInSession
<1>10. PrimaryEnded'
  BY <1>3, <1>4 DEF PrimaryEnded
<1> QED
  BY <1>6, <1>7, <1>8, <1>9, <1>10 DEF IInv, Session

\* It waits for the primary's thread.
LEMMA WaitIInv ==
  ASSUME IInv, ReadRunning \/ JoinPrimary
  PROVE  IInv'
<1>1. /\ UNCHANGED <<list, primary_index, supplemental_index, active, thread_running,
                     thread, connected, plugged>>
      /\ dangling' \subseteq Device
      /\ blocker' \in Blocker /\ blocker'.p = blocker.p
      /\ blocker.pc \in {"started", "join"}
      /\ blocker'.pc \in {"join", "stop_supplemental"}
      /\ blocker'.pc = "stop_supplemental" /\ blocker.p \in ToSet(list) =>
             thread[blocker.p] = "none"
  <2>1. CASE ReadRunning
    BY <2>1 DEF ReadRunning, Touched, pool, IInv, TypeOK, Blocker, MaybeDevice,
                Session, RunningFlagExact
  <2>2. CASE JoinPrimary
    BY <2>2 DEF JoinPrimary, pool, IInv, TypeOK, Blocker
  <2> QED
    BY <2>1, <2>2
<1>2. TypeOK'
  BY <1>1 DEF IInv, TypeOK
<1>3. Selects(list, primary_index, supplemental_index)'
  BY <1>1 DEF IInv, Selects
<1>4. RunningFlagExact'
  BY <1>1 DEF IInv, Session, RunningFlagExact
<1>5. GlassesInSession'
  BY <1>1 DEF IInv, Session, GlassesInSession
<1>6. PrimaryEnded'
  BY <1>1 DEF IInv, Session, PrimaryEnded
<1> QED
  BY <1>2, <1>3, <1>4, <1>5, <1>6 DEF IInv, Session

\* It stops the supplemental, waits for it and clears the flags of both.
LEMMA StopIInv ==
  ASSUME IInv, StopSupplemental \/ JoinSupplemental
  PROVE  IInv'
<1> USE PoolAssumption
<1>1. /\ UNCHANGED <<list, primary_index, supplemental_index, thread, plugged>>
      /\ active' \subseteq active
      /\ connected' \in [Driver -> BOOLEAN]
      /\ dangling' \subseteq Device
      /\ blocker' \in Blocker
      /\ blocker.pc \in {"stop_supplemental", "join_supplemental"}
      /\ blocker' = [blocker EXCEPT !.pc = "join_supplemental"] \/ blocker' = Idle
  <2>1. CASE StopSupplemental
    <3>1. CASE blocker' = [blocker EXCEPT !.pc = "join_supplemental"]
      BY <2>1, <3>1 DEF StopSupplemental, Finish, Touched, pool, IInv, TypeOK, Blocker,
                        MaybeDevice, Idle
    <3>2. CASE Finish({blocker.p})
      BY <2>1, <3>2 DEF StopSupplemental, Finish, Touched, Idle, pool, IInv, TypeOK,
                        Blocker, MaybeDevice
    <3> QED
      BY <2>1, <3>1, <3>2 DEF StopSupplemental
  <2>2. CASE JoinSupplemental
    BY <2>2 DEF JoinSupplemental, Finish, Touched, Idle, pool, IInv, TypeOK, Blocker,
                MaybeDevice
  <2> QED
    BY <2>1, <2>2
<1>2. /\ thread_running' \subseteq thread_running
      /\ \A c \in ToSet(list) \cap thread_running :
             c \notin thread_running' => thread[c] = "none"
  <2>1. blocker.p \in ToSet(list) => thread[blocker.p] = "none"
    BY <1>1 DEF IInv, Session, PrimaryEnded
  <2>2. CASE StopSupplemental
    BY <2>1, <2>2 DEF StopSupplemental, Finish, pool
  <2>3. CASE JoinSupplemental
    BY <2>1, <2>3 DEF JoinSupplemental, Finish
  <2> QED
    BY <2>2, <2>3
<1>3. TypeOK'
  BY <1>1, <1>2 DEF IInv, TypeOK
<1>4. Selects(list, primary_index, supplemental_index)'
  BY <1>1 DEF IInv, Selects
<1>5. RunningFlagExact'
  BY <1>1, <1>2 DEF IInv, Session, RunningFlagExact
<1>6. GlassesInSession'
  BY <1>1 DEF IInv, Session, GlassesInSession
<1>7. PrimaryEnded'
  BY <1>1 DEF IInv, TypeOK, Blocker, Session, PrimaryEnded, Idle
<1> QED
  BY <1>3, <1>4, <1>5, <1>6, <1>7 DEF IInv, Session

-----------------------------------------------------------------------------
(* The theorems.                                                           *)

\* The pool starts empty.
LEMMA InitIInv == Init => IInv
<1> SUFFICES ASSUME Init PROVE IInv
  OBVIOUS
<1>1. list = <<>> /\ Len(list) = 0 /\ ToSet(list) = {}
  BY DEF Init, ToSet
<1>2. TypeOK
  BY <1>1 DEF Init, TypeOK, Idle, Blocker, MaybeDevice, ThreadState
<1>3. Selects(list, primary_index, supplemental_index)
  BY <1>1 DEF Init, Selects
<1>4. Session
  BY <1>1 DEF Init, Session, RunningFlagExact, GlassesInSession, PrimaryEnded, Idle
<1> QED
  BY <1>2, <1>3, <1>4 DEF IInv

\* Every action of the pool's callers and threads preserves the invariant.
LEMMA NextIInv == IInv /\ [Next]_vars => IInv'
<1> SUFFICES ASSUME IInv, [Next]_vars PROVE IInv'
  OBVIOUS
<1>1. ASSUME NEW d \in Device, Arrive(d) PROVE IInv'
  BY <1>1, ArriveIInv
<1>2. ASSUME NEW d \in Device, Leave(d) PROVE IInv'
  BY <1>2, LeaveIInv
<1>3. ASSUME NEW d \in Device, StreamConnected(d) PROVE IInv'
  BY <1>3, QuietIInv DEF StreamConnected, pool, IInv, TypeOK
<1>4. ASSUME NEW drv \in Driver, ConnectionLost(drv) PROVE IInv'
  BY <1>4, QuietIInv DEF ConnectionLost, pool, IInv, TypeOK
<1>5. CASE connection_pool_disconnect_all
  BY <1>5, QuietIInv DEF connection_pool_disconnect_all, IInv, TypeOK
<1>6. ASSUME NEW c \in Device, ThreadBlocks(c) \/ ThreadUnblocks(c) \/ ThreadExits(c)
      PROVE  IInv'
  BY <1>6, ThreadIInv
<1>7. CASE connection_pool_connect_active
  BY <1>7, ConnectIInv
<1>8. CASE BlockThread
  BY <1>8, ConnectIInv, BlockOnActiveIInv, WaitIInv, StopIInv DEF BlockThread
<1>9. CASE UNCHANGED vars
  BY <1>9, QuietIInv DEF vars, pool, IInv, TypeOK
<1> QED
  BY <1>1, <1>2, <1>3, <1>4, <1>5, <1>6, <1>7, <1>8, <1>9 DEF Next

\* The invariant holds in every behaviour.
THEOREM Invariance == Spec => []IInv
  BY InitIInv, NextIInv, PTL DEF Spec

\* connection_pool.c keeps its fields in range, and its threads, whatever comes
\* and goes.
THEOREM TypeCorrect == Spec => []TypeOK
<1>1. IInv => TypeOK
  BY DEF IInv
<1> QED
  BY <1>1, Invariance, PTL

\* pick_primary_index and pick_supplemental_index, applied when connections are
\* added and removed, always leave a consistent selection.
THEOREM Selecting == Spec => []SelectionConsistent
<1>1. IInv => SelectionConsistent
  <2> SUFFICES ASSUME IInv PROVE SelectionConsistent
    OBVIOUS
  <2>1. /\ list \in Seq(Device) /\ DOMAIN list = 1 .. Len(list) /\ Len(list) \in Nat
        /\ primary_index \in 0 .. Len(list) /\ supplemental_index \in 0 .. Len(list)
    BY DEF IInv, TypeOK
  <2>2. /\ primary_index # 0 => Primary = list[primary_index]
        /\ supplemental_index # 0 => Supplemental = list[supplemental_index]
        /\ supplemental_index = 0 <=> Supplemental = NoDevice
    BY <2>1, PoolAssumption DEF Primary, Supplemental, At
  <2>3. primary_index = 0 <=> list = <<>>
    BY <2>1 DEF IInv, Selects
  <2>4. ASSUME Supplemental # NoDevice
        PROVE  Supplemental \in CanBeSupplemental \ {Primary}
    <3>1. primary_index \in 1 .. Len(list) /\ supplemental_index \in 1 .. Len(list)
      BY <2>1, <2>2, <2>4 DEF IInv, Selects
    <3> QED
      BY <2>1, <2>2, <3>1 DEF IInv, Selects
  <2>5. ASSUME Supplemental = NoDevice
        PROVE  ToSet(list) \cap CanBeSupplemental \subseteq {Primary}
    BY <2>1, <2>2, <2>5 DEF IInv, Selects, ToSet
  <2> QED
    BY <2>3, <2>4, <2>5 DEF SelectionConsistent
<1> QED
  BY <1>1, Invariance, PTL

\* handle_device_added ignores a model it has, and nothing brings it in twice.
THEOREM UniqueModels == Spec => []HidUnique
<1>1. IInv => HidUnique
  BY DEF IInv, TypeOK, Selects, HidUnique
<1> QED
  BY <1>1, Invariance, PTL

\* c->thread_running says whether c->thread is there: no pthread_create over a
\* thread that runs, and no pthread_join on one that does not.
THEOREM RunningFlags == Spec => []RunningFlagExact
<1>1. IInv => RunningFlagExact
  BY DEF IInv, Session
<1> QED
  BY <1>1, Invariance, PTL

\* block_on_active does not return before the threads it waited for ended.
THEOREM SessionsEnd == Spec => BlockingEndsWithThreads
<1> DEFINE Returns == blocker.pc \in {"stop_supplemental", "join_supplemental"}
                          /\ blocker'.pc = "idle"
           Ended == \A c \in {blocker.p, blocker.s} \ (dangling' \cup {NoDevice}) :
                        thread'[c] = "none"
<1>1. ASSUME IInv, Next, Returns PROVE Ended
  <2>1. StopSupplemental \/ JoinSupplemental
    <3>1. blocker' # blocker
      BY <1>1
    <3>2. CASE BlockThread
      BY <1>1, <3>2 DEF BlockThread, ConnectPrimary, ConnectSupplemental,
                        connection_pool_block_on_active, ReadRunning, JoinPrimary
    <3>3. CASE connection_pool_connect_active
      BY <1>1, <3>3 DEF connection_pool_connect_active
    <3> QED
      BY <1>1, <3>1, <3>2, <3>3
         DEF Next, Arrive, Leave, StreamConnected, ConnectionLost,
             connection_pool_disconnect_all, ThreadBlocks, ThreadUnblocks, ThreadExits
  <2>2. blocker.p \in ToSet(list) => thread[blocker.p] = "none"
    BY <1>1 DEF IInv, Session, PrimaryEnded
  <2>3. CASE StopSupplemental
    <3>1. /\ SupplementalRuns(FALSE) /\ thread' = thread
          /\ dangling' = dangling \cup ({blocker.s, blocker.p} \ (ToSet(list) \cup {NoDevice}))
      BY <1>1, <2>3 DEF StopSupplemental, Finish, Touched, IInv, TypeOK, Blocker
    <3>2. blocker.s \in ToSet(list) => thread[blocker.s] = "none"
      BY <1>1, <3>1 DEF SupplementalRuns, IInv, Session, RunningFlagExact
    <3> QED
      BY <2>2, <3>1, <3>2
  <2>4. CASE JoinSupplemental
    BY <2>2, <2>4 DEF JoinSupplemental, Finish, Touched
  <2> QED
    BY <2>1, <2>3, <2>4
<1>2. IInv /\ [Next]_vars => [Returns => Ended]_vars
  BY <1>1
<1> QED
  BY <1>2, Invariance, PTL DEF Spec, BlockingEndsWithThreads

\* Glasses that are primary are the first ones, and a removal keeps the order.
LEMMA PrimaryStays ==
  ASSUME IInv, IInv', Next, Primary \in ToSet(list') \ CanBeSupplemental
  PROVE  Primary' = Primary
<1>1. CASE UNCHANGED <<list, primary_index>>
  BY <1>1 DEF Primary, At
<1>2. /\ list \in Seq(Device) /\ list' \in Seq(Device)
      /\ Primary \in Device
      /\ primary_index \in 1 .. Len(list) /\ Primary = list[primary_index]
  <2>1. list \in Seq(Device) /\ list' \in Seq(Device)
    BY DEF IInv, TypeOK
  <2>2. Primary \in Device
    BY <2>1 DEF ToSet
  <2> QED
    BY <2>1, <2>2, PoolAssumption DEF Primary, At
<1>3. ASSUME NEW d \in Device, Arrive(d) PROVE Primary' = Primary
  <2>1. CASE UNCHANGED <<list, primary_index>>
    BY <1>1, <2>1
  <2>2. CASE list' = Append(list, d) /\ primary_index' = primary_index
    BY <1>2, <2>2 DEF Primary, At
  <2>3. primary_index # 0
    BY <1>2
  <2> QED
    BY <1>3, <2>1, <2>2, <2>3 DEF Arrive, connection_pool_handle_device_added
<1>4. ASSUME NEW d \in Device, Leave(d) PROVE Primary' = Primary
  <2>1. CASE UNCHANGED pool
    BY <1>1, <2>1 DEF pool
  <2>2. CASE connection_pool_handle_device_removed(DriverOf[d])
    <3> DEFINE i == find_driver_connection_index(DriverOf[d])
    <3>1. /\ i # 0 /\ list' = RemoveAt(list, i)
          /\ primary_index' = pick_primary_index(list')
      BY <2>2 DEF connection_pool_handle_device_removed
    <3>2. i \in 1 .. Len(list)
      <4>1. {k \in DOMAIN list : DriverOf[list[k]] = DriverOf[d]} \subseteq Nat \ {0}
        BY <1>2
      <4> QED
        BY <1>2, <3>1, <4>1, FirstIndex DEF find_driver_connection_index
    <3> HIDE DEF i
    <3>3. i # primary_index
      BY <1>2, <3>1, <3>2, RemovedConnections DEF IInv
    <3>4. primary_index' \in 1 .. Len(list') /\ list'[primary_index'] = Primary
      BY <1>2, <3>1, <3>2, <3>3, GlassesKept DEF IInv
    <3> QED
      BY <1>2, <3>4 DEF Primary, At
  <2> QED
    BY <1>4, <2>1, <2>2 DEF Leave
<1> QED
  BY <1>1, <1>3, <1>4
     DEF Next, StreamConnected, ConnectionLost, connection_pool_disconnect_all,
         ThreadBlocks, ThreadUnblocks, ThreadExits, connection_pool_connect_active,
         BlockThread, ConnectPrimary, ConnectSupplemental,
         connection_pool_block_on_active, ReadRunning, JoinPrimary,
         StopSupplemental, JoinSupplemental, Finish, pool

\* The primary of a session does not change under it.
THEOREM GlassesStay == Spec => GlassesPrimaryStable
<1> DEFINE Stays == Primary \in ToSet(list') \ CanBeSupplemental
           Same == Primary' = Primary
<1>1. IInv /\ IInv' /\ [Next]_vars => [Stays => Same]_vars
  BY PrimaryStays
<1> QED
  BY <1>1, Invariance, PTL DEF Spec, GlassesPrimaryStable

\* The pool mirrors the bus if no driver serves two models that are plugged in
\* together: removal is by driver, and the model then tells which one it is.
THEOREM BusMirrored ==
  ASSUME \A d, e \in Device : DriverOf[d] = DriverOf[e] <=> ModelOf[d] = ModelOf[e]
  PROVE  Spec => []PoolMirrorsBus
<1> DEFINE Mirrors == plugged = ToSet(list)
<1>1. Init => Mirrors
  BY DEF Init, ToSet
<1>2. IInv /\ Mirrors /\ [Next]_vars => Mirrors'
  <2> SUFFICES ASSUME IInv, Mirrors, [Next]_vars PROVE Mirrors'
    OBVIOUS
  <2>1. list \in Seq(Device)
    BY DEF IInv, TypeOK
  <2>2. CASE UNCHANGED <<list, plugged>>
    BY <2>2
  <2>3. ASSUME NEW d \in Device, Arrive(d) PROVE Mirrors'
    BY <2>1, <2>3, AddedConnections DEF Arrive, connection_pool_handle_device_added
  <2>4. ASSUME NEW d \in Device, Leave(d) PROVE Mirrors'
    <3> DEFINE i == find_driver_connection_index(DriverOf[d])
    <3>1. d \in ToSet(list) /\ plugged' = plugged \ {d}
      BY <2>4 DEF Leave
    <3>2. i # 0 /\ list' = RemoveAt(list, i)
      BY <2>4, <3>1 DEF Leave, ModelInPool, connection_pool_handle_device_removed
    <3>3. i \in 1 .. Len(list) /\ DriverOf[list[i]] = DriverOf[d]
      <4>1. {k \in DOMAIN list : DriverOf[list[k]] = DriverOf[d]} \subseteq Nat \ {0}
        BY <2>1
      <4> QED
        BY <2>1, <3>2, <4>1, FirstIndex DEF find_driver_connection_index
    <3> HIDE DEF i
    <3>4. list[i] = d
      <4>1. PICK k \in 1 .. Len(list) : d = list[k]
        BY <2>1, <3>1 DEF ToSet
      <4>2. ModelOf[list[i]] = ModelOf[list[k]]
        BY <2>1, <3>3, <4>1
      <4> QED
        BY <3>3, <4>1, <4>2 DEF IInv, Selects
    <3> QED
      BY <3>1, <3>2, <3>3, <3>4, RemovedConnections DEF IInv
  <2> QED
    BY <2>2, <2>3, <2>4
       DEF Next, vars, StreamConnected, ConnectionLost, connection_pool_disconnect_all,
           ThreadBlocks, ThreadUnblocks, ThreadExits, connection_pool_connect_active,
           BlockThread, ConnectPrimary, ConnectSupplemental,
           connection_pool_block_on_active, ReadRunning, JoinPrimary,
           StopSupplemental, JoinSupplemental, Finish, pool
<1>3. Mirrors => PoolMirrorsBus
  BY DEF PoolMirrorsBus
<1> QED
  BY <1>1, <1>2, <1>3, Invariance, PTL DEF Spec
=============================================================================
