------------------------- MODULE SleepyScaling_proofs -------------------------
(***************************************************************************)
(* Proofs that the clock and the timer of SleepyScaling have every sleepy  *)
(* builder up and down in time, for every timeout, timer period and clock  *)
(* skew, any number of stamps, edits and faults; and that they implement   *)
(* the safety of ScaleToZero.                                              *)
(***************************************************************************)
EXTENDS SleepyScaling, FiniteSetTheorems, TLAPS

\* What the proofs use of the constants.
LEMMA Constants ==
  /\ None \notin Int
  /\ Timeouts \subseteq Int /\ Period \in Nat /\ Period > 0
  /\ MaxSkew \in Nat /\ MaxAge \in Nat /\ MaxStamps \in Nat
  /\ MaxEdits \in Nat /\ MaxFaults \in Nat
BY ScalingAssumption

\* A stamp has an age, and the annotation is None, garbled or a stamp.
LEMMA Stamps ==
  ASSUME ScalingTypeOK
  PROVE  /\ stamps \in Nat /\ stamps <= MaxStamps /\ timeout \in Int
         /\ \A n \in 1..stamps : n \in 1..MaxStamps /\ age[n] \in Int
         /\ \A value \in Stamp : value \in {None, 0} \/ value \in 1..stamps
         /\ \A value \in 1..stamps : value \notin {None, 0}
BY Constants DEF ScalingTypeOK, Stamp

\* The number of replicas is zero or one, and one while the stamp is fresh.
LEMMA DesiredReplicas ==
  ASSUME ScalingTypeOK, NEW value \in Stamp
  PROVE  /\ desiredReplicas(value) \in {0, 1}
         /\ desiredReplicas(value) = 1 <=>
              value = None \/ (value # 0 /\ age[value] < timeout)
BY DEF desiredReplicas

LEMMA InitKeepsScalingInv == Init => ScalingInv
<1> SUFFICES ASSUME Init PROVE ScalingInv
  OBVIOUS
<1>1. ScalingTypeOK
  <2>1. age \in [1..MaxStamps -> -MaxSkew..MaxAge]
    BY Constants DEF Init
  <2>2. queued \in BOOLEAN /\ current \in BOOLEAN
    BY Zenon DEF Init
  <2> QED BY <2>1, <2>2, Constants DEF Init, ScalingTypeOK, Stamp
<1>2. HandIsKnown /\ LeftAlone /\ AgesDescend
  BY DEF Init, HandIsKnown, LeftAlone, AgesDescend
<1> QED BY <1>1, <1>2 DEF ScalingInv

-----------------------------------------------------------------------------
(* Steps of the worker.                                                    *)

LEMMA BeginKeepsScalingInv ==
  ASSUME ScalingInv, BeginReconcile
  PROVE  ScalingInv'
<1>1. ScalingTypeOK /\ AgesDescend
  BY DEF ScalingInv
<1>2. ScalingTypeOK'
  <2>1. current' \in BOOLEAN /\ queued' \in BOOLEAN
    BY Zenon DEF BeginReconcile
  <2> QED BY <1>1, <2>1 DEF ScalingTypeOK, BeginReconcile, Stamp
<1>3. HandIsKnown' /\ LeftAlone' /\ AgesDescend'
  BY <1>1 DEF HandIsKnown, LeftAlone, AgesDescend, BeginReconcile
<1> QED BY <1>2, <1>3 DEF ScalingInv

\* Whatever fails has the builder queued again.
LEMMA FailureKeepsScalingInv ==
  ASSUME ScalingInv, Fail, replicas' \in {0, 1}, timer' \in {None, timer},
         seen' \in {seen, lastUsed},
         UNCHANGED <<timeout, lastUsed, stamps, age>>
  PROVE  ScalingInv'
<1>1. ScalingTypeOK /\ AgesDescend
  BY DEF ScalingInv
<1>2. /\ pc' = "idle" /\ queued' = TRUE /\ current' = TRUE /\ hand' = None
  BY DEF Fail
<1>3. ScalingTypeOK'
  <2>1. current' \in BOOLEAN /\ queued' \in BOOLEAN
    BY <1>2, Zenon
  <2> QED BY <1>1, <1>2, <2>1 DEF ScalingTypeOK, Stamp
<1>4. HandIsKnown' /\ LeftAlone' /\ AgesDescend'
  BY <1>1, <1>2 DEF HandIsKnown, LeftAlone, AgesDescend
<1> QED BY <1>3, <1>4 DEF ScalingInv

LEMMA ScaleKeepsScalingInv ==
  ASSUME ScalingInv, createOrUpdateStatefulSet
  PROVE  ScalingInv'
<1>1. ScalingTypeOK /\ HandIsKnown /\ AgesDescend /\ pc = "sts"
      /\ desiredReplicas(hand) \in {0, 1}
  BY DesiredReplicas DEF ScalingInv, ScalingTypeOK, createOrUpdateStatefulSet
<1>2. UNCHANGED <<timeout, lastUsed, seen, stamps, age, timer, edits>>
  BY DEF createOrUpdateStatefulSet
<1>3. CASE /\ replicas' = desiredReplicas(hand) /\ pc' = "status"
           /\ UNCHANGED <<hand, current, queued, faults>>
  <2>1. ScalingTypeOK'
    BY <1>1, <1>2, <1>3 DEF ScalingTypeOK, Stamp
  <2>2. desiredReplicas(hand)' = desiredReplicas(hand)
    BY <1>2, <1>3 DEF desiredReplicas
  <2>3. HandIsKnown' /\ LeftAlone' /\ AgesDescend'
    BY <1>1, <1>2, <1>3, <2>2 DEF HandIsKnown, LeftAlone, AgesDescend
  <2> QED BY <2>1, <2>3 DEF ScalingInv
<1>4. CASE replicas' \in {replicas, desiredReplicas(hand)} /\ Fail
  <2>1. replicas' \in {0, 1}
    BY <1>1, <1>4 DEF ScalingTypeOK
  <2> QED BY <1>2, <1>4, <2>1, FailureKeepsScalingInv
<1> QED BY <1>3, <1>4 DEF createOrUpdateStatefulSet

\* A builder whose status is written is up if its stamp is fresh, and looked at
\* again a timer period later at the latest.
LEMMA StatusKeepsScalingInv ==
  ASSUME ScalingInv, updateStatusWithLastScaled
  PROVE  ScalingInv'
<1>1. ScalingTypeOK /\ HandIsKnown /\ AgesDescend /\ pc = "status"
  BY DEF ScalingInv, updateStatusWithLastScaled
<1>2. UNCHANGED <<timeout, lastUsed, seen, stamps, age, replicas, edits>>
  BY DEF updateStatusWithLastScaled
<1>3. CASE /\ pc' = "idle" /\ hand' = None /\ current' = TRUE
           /\ timer' = Earlier(Period) /\ queued' \in {queued, TRUE}
  <2>1. timer' \in 1..Period
    BY <1>1, <1>3, Constants DEF ScalingTypeOK, Earlier
  <2>2. ScalingTypeOK'
    <3>1. current' \in BOOLEAN /\ queued' \in BOOLEAN
      BY <1>1, <1>3, Zenon DEF ScalingTypeOK
    <3> QED BY <1>1, <1>2, <1>3, <2>1, <3>1 DEF ScalingTypeOK, Stamp
  <2>3. LeftAlone'
    <3> SUFFICES ASSUME ~queued'
                 PROVE  /\ timer' # None
                        /\ desiredReplicas(seen)' = 1 => replicas' = 1
                        /\ replicas' = 1 /\ seen' # None =>
                             seen' # 0 /\ age'[seen'] + timer' < timeout' + Period
      BY DEF LeftAlone
    <3>1. hand = seen /\ replicas = desiredReplicas(seen) /\ seen \in Stamp
      BY <1>1, <1>3 DEF HandIsKnown, ScalingTypeOK
    <3>2. desiredReplicas(seen)' = desiredReplicas(seen)
      BY <1>2 DEF desiredReplicas
    <3>3. ASSUME replicas = 1, seen # None
          PROVE  seen # 0 /\ age[seen] + timer' < timeout + Period
      <4>1. seen # 0 /\ age[seen] < timeout
        BY <1>1, <3>1, <3>3, DesiredReplicas
      <4>2. age[seen] \in Int /\ timeout \in Int
        BY <1>1, <3>1, <3>3, <4>1, Stamps
      <4> QED BY <2>1, <4>1, <4>2, Constants
    <3> QED BY <1>2, <2>1, <3>1, <3>2, <3>3, Constants
  <2>4. HandIsKnown' /\ AgesDescend'
    BY <1>1, <1>2, <1>3 DEF HandIsKnown, AgesDescend
  <2> QED BY <2>2, <2>3, <2>4 DEF ScalingInv
<1>4. CASE Fail /\ UNCHANGED timer
  <2>1. replicas' \in {0, 1}
    BY <1>1, <1>2 DEF ScalingTypeOK
  <2> QED BY <1>2, <1>4, <2>1, FailureKeepsScalingInv
<1> QED BY <1>3, <1>4 DEF updateStatusWithLastScaled

LEMMA RestartKeepsScalingInv ==
  ASSUME ScalingInv, RestartController
  PROVE  ScalingInv'
<1>1. replicas' \in {0, 1}
  BY DEF ScalingInv, ScalingTypeOK, RestartController
<1> QED BY <1>1, FailureKeepsScalingInv DEF RestartController

-----------------------------------------------------------------------------
(* Users, the cache, and time.                                             *)

\* A new stamp is younger than those before it, and no copy of the annotation
\* has it yet.
LEMMA StartBuildKeepsScalingInv ==
  ASSUME ScalingInv, NEW skew \in 0..MaxSkew, StartBuild(skew)
  PROVE  ScalingInv'
<1>1. ScalingTypeOK /\ HandIsKnown /\ LeftAlone /\ AgesDescend
  BY DEF ScalingInv
<1>2. /\ stamps < MaxStamps /\ stamps' = stamps + 1
      /\ stamps > 0 => -skew <= age[stamps]
      /\ age' = [age EXCEPT ![stamps + 1] = -skew]
      /\ lastUsed' = stamps + 1 /\ current' = FALSE
      /\ UNCHANGED <<timeout, seen, queued, timer, pc, hand, replicas, edits, faults>>
  BY DEF StartBuild, Annotate, worker
<1>3. /\ stamps \in Nat /\ stamps + 1 \in 1..MaxStamps
      /\ -skew \in -MaxSkew..MaxAge /\ skew \in Nat
  BY <1>1, <1>2, Stamps, Constants
<1>4. /\ age'[stamps + 1] = -skew
      /\ \A n \in 1..stamps : age'[n] = age[n]
  BY <1>1, <1>2, <1>3 DEF ScalingTypeOK
<1>5. ScalingTypeOK'
  <2>1. age' \in [1..MaxStamps -> -MaxSkew..MaxAge]
    BY <1>1, <1>2, <1>3 DEF ScalingTypeOK
  <2>2. current' \in BOOLEAN
    BY <1>2, Zenon
  <2>3. Stamp \subseteq Stamp' /\ stamps + 1 \in Stamp'
    BY <1>2, <1>3 DEF Stamp
  <2> QED BY <1>1, <1>2, <1>3, <2>1, <2>2, <2>3 DEF ScalingTypeOK
<1>6. \A value \in Stamp : /\ desiredReplicas(value)' = desiredReplicas(value)
                           /\ value \notin {None, 0} => age'[value] = age[value]
  <2>1. \A value \in Stamp : value \notin {None, 0} => age'[value] = age[value]
    BY <1>1, <1>4, Stamps
  <2> QED BY <1>2, <2>1 DEF desiredReplicas
<1>7. HandIsKnown' /\ LeftAlone'
  BY <1>1, <1>2, <1>6 DEF HandIsKnown, LeftAlone, ScalingTypeOK
<1>8. AgesDescend'
  <2> SUFFICES ASSUME NEW m \in 1..(stamps + 1), NEW n \in 1..(stamps + 1), m < n
               PROVE  age'[m] >= age'[n]
    BY <1>2 DEF AgesDescend
  <2>1. m \in 1..stamps /\ stamps > 0 /\ stamps \in 1..stamps
        /\ age[m] \in Int /\ age[stamps] \in Int
    BY <1>1, <1>3, Stamps
  <2>2. age[m] >= age[stamps]
    BY <1>1, <2>1 DEF AgesDescend
  <2>3. CASE n \in 1..stamps
    BY <1>1, <1>4, <2>1, <2>3 DEF AgesDescend
  <2>4. CASE n = stamps + 1
    BY <1>2, <1>3, <1>4, <2>1, <2>2, <2>4
  <2> QED BY <1>3, <2>3, <2>4
<1> QED BY <1>5, <1>7, <1>8 DEF ScalingInv

LEMMA EditKeepsScalingInv ==
  ASSUME ScalingInv, NEW value \in {None, 0}, EditLastUsed(value)
  PROVE  ScalingInv'
<1>1. ScalingTypeOK /\ HandIsKnown /\ LeftAlone /\ AgesDescend
  BY DEF ScalingInv
<1>2. /\ lastUsed' = value /\ current' = FALSE
      /\ UNCHANGED <<timeout, seen, stamps, age, queued, timer, pc, hand, replicas, faults>>
  BY DEF EditLastUsed, Annotate, worker
<1>3. ScalingTypeOK'
  <2>1. current' \in BOOLEAN
    BY <1>2, Zenon
  <2>2. value \in Stamp
    BY <1>1, Stamps DEF Stamp
  <2> QED BY <1>1, <1>2, <2>1, <2>2 DEF ScalingTypeOK, Stamp
<1>4. \A v : desiredReplicas(v)' = desiredReplicas(v)
  BY <1>2 DEF desiredReplicas
<1>5. HandIsKnown' /\ LeftAlone' /\ AgesDescend'
  BY <1>1, <1>2, <1>4 DEF HandIsKnown, LeftAlone, AgesDescend, desiredReplicas
<1> QED BY <1>3, <1>5 DEF ScalingInv

LEMMA SyncKeepsScalingInv ==
  ASSUME ScalingInv, Sync
  PROVE  ScalingInv'
<1>1. ScalingTypeOK /\ HandIsKnown /\ AgesDescend
  BY DEF ScalingInv
<1>2. /\ seen' = lastUsed /\ queued' = TRUE
      /\ UNCHANGED <<timeout, lastUsed, stamps, age, timer, pc, hand, current, replicas>>
  BY DEF Sync, worker
<1>3. ScalingTypeOK'
  <2>1. queued' \in BOOLEAN
    BY <1>2, Zenon
  <2> QED BY <1>1, <1>2, <2>1 DEF ScalingTypeOK, Stamp
<1>4. HandIsKnown' /\ LeftAlone' /\ AgesDescend'
  BY <1>1, <1>2 DEF HandIsKnown, LeftAlone, AgesDescend, desiredReplicas
<1> QED BY <1>3, <1>4 DEF ScalingInv

\* A unit of time adds at most one to every age, and nothing to those of stamps
\* that are not issued.
LEMMA Ages ==
  ASSUME ScalingTypeOK, Tick
  PROVE  /\ age' \in [1..MaxStamps -> -MaxSkew..MaxAge]
         /\ \A n \in 1..stamps : /\ age[n] <= age'[n] /\ age'[n] <= age[n] + 1
                                 /\ age'[n] \in Int
                                 /\ age'[n] = IF age[n] < MaxAge THEN age[n] + 1 ELSE age[n]
<1>1. age' = [n \in 1..MaxStamps |->
                IF n <= stamps /\ age[n] < MaxAge THEN age[n] + 1 ELSE age[n]]
  BY DEF Tick
<1>2. \A n \in 1..MaxStamps : age[n] \in -MaxSkew..MaxAge
  BY DEF ScalingTypeOK
<1>3. \A n \in 1..MaxStamps : age'[n] \in -MaxSkew..MaxAge
  BY <1>1, <1>2, Constants
<1>4. \A n \in 1..stamps : n \in 1..MaxStamps /\ n <= stamps /\ age[n] \in Int
  BY Stamps
<1> QED BY <1>1, <1>3, <1>4, Constants

\* Time passes when nobody has anything to do; the ages and the timer meet.
LEMMA TickKeepsScalingInv ==
  ASSUME ScalingInv, Tick
  PROVE  ScalingInv'
<1>1. /\ ScalingTypeOK /\ LeftAlone /\ AgesDescend /\ Quiet
      /\ timer # None /\ timer \in 1..Period
  BY DEF ScalingInv, ScalingTypeOK, LeftAlone, Quiet, Tick
<1>2. /\ timer' = (IF timer \in {None, 1} THEN None ELSE timer - 1)
      /\ queued' = (timer = 1)
      /\ UNCHANGED <<timeout, lastUsed, seen, stamps, pc, hand, current, replicas>>
  BY DEF Tick, worker
<1>3. pc = "idle" /\ ~queued
  BY <1>1 DEF Quiet
<1>4. ScalingTypeOK'
  <2>1. timer' \in 1..Period \cup {None}
    BY <1>1, <1>2, Constants
  <2>2. queued' \in BOOLEAN
    BY <1>2, Zenon
  <2> QED BY <1>1, <1>2, <2>1, <2>2, Ages DEF ScalingTypeOK, Stamp
<1>5. LeftAlone'
  <2> SUFFICES ASSUME ~queued'
               PROVE  /\ timer' # None
                      /\ desiredReplicas(seen)' = 1 => replicas' = 1
                      /\ replicas' = 1 /\ seen' # None =>
                           seen' # 0 /\ age'[seen'] + timer' < timeout' + Period
    BY DEF LeftAlone
  <2>0. timer # 1
    BY <1>2, Zenon
  <2>1. timer' = timer - 1 /\ timer' \in Int /\ timer' # None
    BY <1>1, <1>2, <2>0, Constants
  <2>2. seen \in Stamp /\ timeout \in Int /\ Period \in Int
    BY <1>1, Stamps, Constants DEF ScalingTypeOK
  <2>3. seen \notin {None, 0} =>
          age[seen] \in Int /\ age'[seen] \in Int
          /\ age[seen] <= age'[seen] /\ age'[seen] <= age[seen] + 1
    BY <1>1, <2>2, Stamps, Ages
  <2>4. ASSUME desiredReplicas(seen)' = 1 PROVE replicas' = 1
    <3>1. seen = None \/ (seen # 0 /\ age'[seen] < timeout)
      BY <1>2, <2>4 DEF desiredReplicas
    <3>2. desiredReplicas(seen) = 1
      BY <1>1, <2>2, <2>3, <3>1, DesiredReplicas
    <3> QED BY <1>1, <1>2, <1>3, <3>2 DEF LeftAlone
  <2>5. ASSUME replicas = 1, seen # None
        PROVE  seen # 0 /\ age'[seen] + timer' < timeout + Period
    <3>1. seen # 0 /\ age[seen] + timer < timeout + Period
      BY <1>1, <1>3, <2>5 DEF LeftAlone
    <3> QED BY <1>1, <2>1, <2>2, <2>3, <2>5, <3>1
  <2> QED BY <1>2, <2>1, <2>4, <2>5
<1>6. HandIsKnown'
  BY <1>2, <1>3 DEF HandIsKnown
<1>7. AgesDescend'
  <2> SUFFICES ASSUME NEW m \in 1..stamps, NEW n \in 1..stamps, m < n
               PROVE  age'[m] >= age'[n]
    BY <1>2 DEF AgesDescend
  <2>1. age[m] >= age[n] /\ age[m] \in Int /\ age[n] \in Int
    BY <1>1, Stamps DEF AgesDescend
  <2> QED BY <1>1, <2>1, Ages, Constants
<1> QED BY <1>4, <1>5, <1>6, <1>7 DEF ScalingInv

-----------------------------------------------------------------------------
(* The theorems.                                                           *)

LEMMA StutterKeepsScalingInv ==
  ASSUME ScalingInv, UNCHANGED vars
  PROVE  ScalingInv'
BY DEF vars, worker, ScalingInv, ScalingTypeOK, Stamp, HandIsKnown, LeftAlone,
       AgesDescend, desiredReplicas

\* ScalingInv holds in every history of builds, edits, faults and passing time.
THEOREM ScalingInvariant == Spec => []ScalingInv
<1>1. ScalingInv /\ [Next]_vars => ScalingInv'
  BY BeginKeepsScalingInv, ScaleKeepsScalingInv, StatusKeepsScalingInv,
     RestartKeepsScalingInv, StartBuildKeepsScalingInv, EditKeepsScalingInv,
     SyncKeepsScalingInv, TickKeepsScalingInv, StutterKeepsScalingInv
  DEF Next, Reconcile
<1> QED BY <1>1, InitKeepsScalingInv, PTL DEF Spec

\* The state stays typed: the annotation, its copies and the ages are of stamps
\* that were issued, and the timer is never longer than its period.
THEOREM ScalingTyped == Spec => []ScalingTypeOK
<1>1. ScalingInv => ScalingTypeOK
  BY DEF ScalingInv
<1> QED BY <1>1, ScalingInvariant, PTL

\* Time never passes over a builder in use whose pod is not running.
THEOREM BuilderUpInTime == Spec => []UpInTime
<1>1. ScalingInv => UpInTime
  BY DesiredReplicas DEF ScalingInv, ScalingTypeOK, LeftAlone, UpInTime, Quiet, InUse
<1> QED BY <1>1, ScalingInvariant, PTL

\* A builder that is still up was used less than its timeout and one timer
\* period ago, or never, whatever the timeout.
THEOREM BuilderDownInTime == Spec => []DownInTime
<1>1. ScalingInv => DownInTime
  <2> SUFFICES ASSUME ScalingInv, Quiet, replicas = 1, lastUsed # None
               PROVE  lastUsed # 0 /\ age[lastUsed] < timeout + Period
    BY DEF DownInTime
  <2>1. ScalingTypeOK /\ LeftAlone /\ pc = "idle" /\ ~queued /\ seen = lastUsed
    BY DEF ScalingInv, Quiet
  <2>2. /\ timer # None /\ lastUsed # 0
        /\ age[lastUsed] + timer < timeout + Period
    BY <2>1 DEF LeftAlone
  <2>3. timer \in 1..Period /\ lastUsed \in 1..stamps
    BY <2>1, <2>2, Stamps DEF ScalingTypeOK
  <2>4. age[lastUsed] \in Int /\ timeout \in Int /\ Period \in Int
    BY <2>1, <2>3, Stamps, Constants
  <2> QED BY <2>2, <2>3, <2>4
<1> QED BY <1>1, ScalingInvariant, PTL

\* The step that takes a builder down has read the annotation that says so.
THEOREM BuilderNotDownEarly == Spec => NotDownEarly
<1>1. ScalingInv /\ [Next]_vars =>
        [replicas' = 0 /\ replicas = 1 /\ current => ~InUse]_vars
  <2> SUFFICES ASSUME ScalingInv, Next, replicas' = 0, replicas = 1, current
               PROVE  ~InUse
    OBVIOUS
  <2>1. createOrUpdateStatefulSet
    BY DEF Next, Reconcile, BeginReconcile, updateStatusWithLastScaled, RestartController,
           StartBuild, EditLastUsed, Sync, Tick
  <2>2. ScalingTypeOK /\ HandIsKnown /\ pc # "idle"
    BY <2>1 DEF ScalingInv, createOrUpdateStatefulSet
  <2>3. hand = lastUsed
    BY <2>2, Zenon DEF HandIsKnown
  <2>4. replicas' \in {replicas, desiredReplicas(hand)}
    BY <2>1 DEF createOrUpdateStatefulSet
  <2>5. desiredReplicas(hand) = 0
    BY <2>4
  <2> QED BY <2>2, <2>3, <2>5, DesiredReplicas DEF ScalingTypeOK, InUse
<1> QED BY <1>1, ScalingInvariant, PTL DEF Spec, NotDownEarly

-----------------------------------------------------------------------------
(* The clock and the timer keep the promise of ScaleToZero.                *)

\* The stamps that are expired are the first ones, so that a stamp is fresh
\* when its number is beyond their number.
LEMMA ExpiredCount ==
  ASSUME ScalingTypeOK, AgesDescend
  PROVE  /\ IsFiniteSet(Expired) /\ Cardinality(Expired) \in 0..stamps
         /\ \A s \in 1..stamps : s > Cardinality(Expired) <=> age[s] < timeout
<1>1. /\ stamps \in Nat /\ timeout \in Int
      /\ \A s \in 1..stamps : age[s] \in Int
  BY Stamps
<1>2. \A n \in Nat : IsFiniteSet(1..n) /\ Cardinality(1..n) = n
  <2> TAKE n \in Nat
  <2>1. 1 \in Int /\ n \in Int
    OBVIOUS
  <2>2. IsFiniteSet(1..n) /\ Cardinality(1..n) = IF 1 > n THEN 0 ELSE n - 1 + 1
    BY <2>1, FS_Interval
  <2> QED BY <2>2
<1>3. /\ IsFiniteSet(Expired) /\ Cardinality(Expired) \in Nat
      /\ Cardinality(Expired) <= stamps
  <2>1. Expired \in SUBSET (1..stamps)
    BY DEF Expired
  <2>2. IsFiniteSet(1..stamps) /\ Cardinality(1..stamps) = stamps
    BY <1>1, <1>2
  <2>3. IsFiniteSet(Expired) /\ Cardinality(Expired) <= Cardinality(1..stamps)
    BY <2>1, <2>2, FS_Subset
  <2> QED BY <2>2, <2>3, FS_CardinalityType
<1>4. ASSUME NEW s \in 1..stamps, age[s] < timeout
      PROVE  s > Cardinality(Expired)
  <2>1. Expired \in SUBSET (1..(s - 1))
    <3> SUFFICES ASSUME NEW n \in 1..stamps, age[n] >= timeout PROVE n < s
      BY <1>1 DEF Expired
    <3>1. age[n] \in Int /\ age[s] \in Int
      BY <1>1
    <3>2. s # n
      BY <1>1, <1>4, <3>1
    <3>3. ~(s < n)
      BY <1>1, <1>4, <3>1 DEF AgesDescend
    <3> QED BY <1>1, <3>2, <3>3
  <2>2. s - 1 \in Nat
    BY <1>1
  <2>3. IsFiniteSet(1..(s - 1)) /\ Cardinality(1..(s - 1)) = s - 1
    BY <1>2, <2>2
  <2>4. Cardinality(Expired) <= Cardinality(1..(s - 1))
    BY <2>1, <2>3, FS_Subset
  <2> QED BY <1>3, <2>2, <2>3, <2>4
<1>5. ASSUME NEW s \in 1..stamps, ~(age[s] < timeout)
      PROVE  ~(s > Cardinality(Expired))
  <2>1. 1..s \in SUBSET Expired
    <3> SUFFICES ASSUME NEW n \in 1..s PROVE n \in 1..stamps /\ age[n] >= timeout
      BY DEF Expired
    <3>1. n \in 1..stamps /\ age[n] \in Int /\ age[s] \in Int
      BY <1>1
    <3>2. CASE n = s
      BY <1>1, <1>5, <3>1, <3>2
    <3>3. CASE n < s
      <4>1. age[n] >= age[s]
        BY <3>1, <3>3 DEF AgesDescend
      <4> QED BY <1>1, <1>5, <3>1, <4>1
    <3> QED BY <1>1, <3>2, <3>3
  <2>2. s \in Nat
    BY <1>1
  <2>3. s <= Cardinality(Expired)
    BY <1>2, <1>3, <2>1, <2>2, FS_Subset
  <2> QED BY <1>3, <2>2, <2>3
<1> QED BY <1>1, <1>3, <1>4, <1>5

\* What the controller takes for fresh is what the promise calls fresh.
LEMMA FreshIsUp ==
  ASSUME ScalingTypeOK, AgesDescend, NEW value \in Stamp
  PROVE  desiredReplicas(value) = IF Untimed!Fresh(value) THEN 1 ELSE 0
<1>1. value \in {None, 0} \/ value \in 1..stamps
  BY Stamps
<1>2. CASE value \in {None, 0}
  BY <1>2 DEF desiredReplicas, Untimed!Fresh
<1>3. CASE value \in 1..stamps
  BY <1>3, ExpiredCount DEF desiredReplicas, Untimed!Fresh
<1> QED BY <1>1, <1>2, <1>3

\* Steps that touch neither ages nor stamps leave the expired stamps alone.
LEMMA SameExpired ==
  ASSUME UNCHANGED <<timeout, stamps, age>>
  PROVE  Expired' = Expired
BY DEF Expired

\* Before and after a step the expired stamps can be counted.
LEMMA CountedBefore == ScalingInv => IsFiniteSet(Expired) /\ Cardinality(Expired) \in 0..stamps
BY ExpiredCount DEF ScalingInv

LEMMA CountedAfter ==
  ScalingInv' => IsFiniteSet(Expired') /\ Cardinality(Expired') \in 0..stamps'
<1>1. ScalingInv' => (IsFiniteSet(Expired) /\ Cardinality(Expired) \in 0..stamps)'
  BY CountedBefore, PTL
<1> QED BY <1>1

\* The set of expired stamps only grows, with time and with new stamps.
LEMMA ExpiredGrows ==
  ASSUME ScalingInv, ScalingInv', Expired \in SUBSET Expired'
  PROVE  /\ Cardinality(Expired) \in Nat /\ stamps' \in Nat
         /\ Cardinality(Expired') \in Cardinality(Expired)..stamps'
<1>1. stamps \in Nat /\ stamps' \in Nat
  BY DEF ScalingInv, ScalingTypeOK
<1>2. /\ Cardinality(Expired) \in 0..stamps
      /\ IsFiniteSet(Expired') /\ Cardinality(Expired') \in 0..stamps'
  BY CountedBefore, CountedAfter
<1>3. Cardinality(Expired) <= Cardinality(Expired')
  BY <1>2, FS_Subset
<1> QED BY <1>1, <1>2, <1>3

\* Initially no stamp is expired and the promise's state is its initial one.
LEMMA InitRefines == Init => Untimed!Init
<1> SUFFICES ASSUME Init PROVE Untimed!Init
  OBVIOUS
<1>1. Cardinality(Expired) = 0
  <2>1. Expired = {}
    BY DEF Init, Expired
  <2> QED BY <2>1, FS_EmptySet
<1> QED BY <1>1 DEF Init, Untimed!Init

\* The worker's steps take the annotation, scale and finish.
LEMMA WorkerRefines ==
  ASSUME ScalingInv, Reconcile \/ RestartController
  PROVE  Untimed!Next
<1>1. ScalingTypeOK /\ AgesDescend /\ hand \in Stamp
  BY DEF ScalingInv, ScalingTypeOK
<1>2. UNCHANGED <<timeout, lastUsed, stamps, age>>
  BY DEF Reconcile, BeginReconcile, createOrUpdateStatefulSet,
         updateStatusWithLastScaled, RestartController
<1>3. Expired' = Expired
  BY <1>2, SameExpired
<1>4. ASSUME BeginReconcile PROVE Untimed!Take
  BY <1>2, <1>3, <1>4 DEF BeginReconcile, Untimed!Take
<1>5. ASSUME createOrUpdateStatefulSet PROVE Untimed!Scale \/ Untimed!Finish
  <2>1. desiredReplicas(hand) = IF Untimed!Fresh(hand) THEN 1 ELSE 0
    BY <1>1, FreshIsUp
  <2>2. pc = "sts" /\ seen' = seen
    BY <1>5 DEF createOrUpdateStatefulSet
  <2>3. CASE replicas' = desiredReplicas(hand) /\ pc' = "status" /\ hand' = hand
    BY <1>2, <1>3, <2>1, <2>2, <2>3 DEF Untimed!Scale, Untimed!Fresh
  <2>4. CASE replicas' = desiredReplicas(hand) /\ Fail
    BY <1>2, <1>3, <2>1, <2>2, <2>4 DEF Fail, Untimed!Scale, Untimed!Fresh
  <2>5. CASE replicas' = replicas /\ Fail
    BY <1>2, <1>3, <2>2, <2>5 DEF Fail, Untimed!Finish
  <2> QED BY <1>5, <2>3, <2>4, <2>5 DEF createOrUpdateStatefulSet
<1>6. ASSUME updateStatusWithLastScaled PROVE Untimed!Finish
  BY <1>2, <1>3, <1>6 DEF updateStatusWithLastScaled, Fail, Untimed!Finish
<1>7. ASSUME RestartController PROVE Untimed!Finish
  BY <1>2, <1>3, <1>7 DEF RestartController, Fail, Untimed!Finish
<1> QED BY <1>4, <1>5, <1>6, <1>7 DEF Reconcile, Untimed!Next

\* A build that starts uses the builder; with a timeout that is not positive
\* its stamp is expired from the start.
LEMMA StartBuildRefines ==
  ASSUME ScalingInv, ScalingInv', NEW skew \in 0..MaxSkew, StartBuild(skew)
  PROVE  Untimed!Use
<1>1. /\ stamps' = stamps + 1 /\ lastUsed' = stamps'
      /\ age' = [age EXCEPT ![stamps + 1] = -skew]
      /\ UNCHANGED <<timeout, seen, pc, hand, replicas>>
  BY DEF StartBuild, Annotate, worker
<1>2. Expired \in SUBSET Expired'
  <2>1. /\ stamps \in Nat /\ age \in [1..MaxStamps -> -MaxSkew..MaxAge]
        /\ \A n \in 1..stamps : n \in 1..MaxStamps
    BY Stamps DEF ScalingInv, ScalingTypeOK
  <2>2. \A n \in 1..stamps : n \in 1..stamps' /\ age'[n] = age[n]
    BY <1>1, <2>1
  <2> QED BY <1>1, <2>2 DEF Expired
<1>3. Cardinality(Expired') \in Cardinality(Expired)..stamps'
  BY <1>2, ExpiredGrows
<1> QED BY <1>1, <1>3 DEF Untimed!Use, Untimed!Annotate

\* A unit of time expires the stamps whose time is over, if any.
LEMMA TickRefines ==
  ASSUME ScalingInv, ScalingInv', Tick
  PROVE  Untimed!Expire \/ UNCHANGED Untimed!vars
<1>1. UNCHANGED <<timeout, lastUsed, seen, stamps, pc, hand, replicas>>
  BY DEF Tick, worker
<1>2. Expired \in SUBSET Expired'
  <2>1. timeout \in Int /\ \A n \in 1..stamps : age[n] \in Int
    BY Stamps DEF ScalingInv
  <2>2. \A n \in 1..stamps : age[n] <= age'[n] /\ age'[n] \in Int
    BY Ages DEF ScalingInv
  <2>3. \A n \in 1..stamps : age[n] >= timeout => age'[n] >= timeout
    BY <2>1, <2>2
  <2> QED BY <1>1, <2>3 DEF Expired
<1>3. /\ Cardinality(Expired) \in Nat /\ stamps' \in Nat
      /\ Cardinality(Expired') \in Cardinality(Expired)..stamps'
  BY <1>2, ExpiredGrows
<1>4. CASE Cardinality(Expired') = Cardinality(Expired)
  BY <1>1, <1>4 DEF Untimed!vars
<1>5. CASE Cardinality(Expired') # Cardinality(Expired)
  <2>1. Cardinality(Expired') \in (Cardinality(Expired) + 1)..stamps
    BY <1>1, <1>3, <1>5
  <2> QED BY <1>1, <2>1 DEF Untimed!Expire
<1> QED BY <1>4, <1>5

\* Every step of the clock, the timer, the worker and the users is a step that
\* ScaleToZero allows, or changes nothing that it speaks of.
THEOREM KeepsScaleToZero == Spec => Untimed!Safety
<1>1. ScalingInv /\ ScalingInv' /\ [Next]_vars => [Untimed!Next]_(Untimed!vars)
  <2> SUFFICES ASSUME ScalingInv, ScalingInv', [Next]_vars
               PROVE  Untimed!Next \/ UNCHANGED Untimed!vars
    OBVIOUS
  <2>1. CASE Reconcile \/ RestartController
    BY <2>1, WorkerRefines
  <2>2. CASE \E skew \in 0..MaxSkew : StartBuild(skew)
    BY <2>2, StartBuildRefines DEF Untimed!Next
  <2>3. ASSUME NEW value \in {None, 0}, EditLastUsed(value) PROVE Untimed!Edit
    <3>1. UNCHANGED <<timeout, stamps, age>>
      BY <2>3 DEF EditLastUsed
    <3>2. Expired' = Expired
      BY <3>1, SameExpired
    <3> QED BY <2>3, <3>2
      DEF EditLastUsed, Annotate, worker, Untimed!Edit, Untimed!Annotate
  <2>4. ASSUME Sync PROVE Untimed!Catch
    <3>1. UNCHANGED <<timeout, stamps, age>>
      BY <2>4 DEF Sync
    <3>2. Expired' = Expired
      BY <3>1, SameExpired
    <3> QED BY <2>4, <3>2 DEF Sync, worker, Untimed!Catch
  <2>5. CASE Tick
    BY <2>5, TickRefines DEF Untimed!Next
  <2>6. ASSUME UNCHANGED vars PROVE UNCHANGED Untimed!vars
    <3>1. Expired' = Expired
      BY <2>6, SameExpired DEF vars
    <3> QED BY <2>6, <3>1 DEF vars, worker, Untimed!vars
  <2> QED BY <2>1, <2>2, <2>3, <2>4, <2>5, <2>6 DEF Next, Untimed!Next
<1> QED BY <1>1, InitRefines, ScalingInvariant, PTL DEF Spec, Untimed!Safety

=============================================================================
