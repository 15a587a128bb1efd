---------------------------- MODULE SleepyScaling ----------------------------
(***************************************************************************)
(* Scale to zero against the clock (reconcileSleepy): the age of the       *)
(* last-used annotation, idleTimeoutSeconds, and the timer of RequeueAfter *)
(* that has the controller look again though nothing has changed.          *)
(*                                                                         *)
(* A unit of time is shorter than the timer and longer than a reconcile    *)
(* with its retries.  Of a reconcile the read of the builder, the write of *)
(* the StatefulSet and that of the status are kept.                        *)
(***************************************************************************)
EXTENDS Integers, FiniteSets

CONSTANTS
  None,         \* the absent annotation
  Timeouts,     \* values of idleTimeoutSeconds, in units of time
  Period,       \* the 30 seconds of RequeueAfter
  MaxSkew,      \* bound: how far ahead of the controller's clock a stamp may be
  MaxAge,       \* bound: ages are not told apart beyond it
  MaxStamps,    \* bound: builds started
  MaxEdits,     \* bound: the annotation removed or garbled by hand
  MaxFaults     \* bound: failed calls and restarts

ASSUME ScalingAssumption ==
  /\ None \notin Int
  /\ Timeouts \subseteq Int /\ {MaxSkew, MaxAge, MaxStamps, MaxEdits, MaxFaults} \subseteq Nat
  /\ Period \in Nat \ {0}
  /\ \A t \in Timeouts : t + Period < MaxAge

VARIABLES
  timeout,   \* idleTimeoutSeconds of the builder
  lastUsed,  \* its annotation: None, 0 when it cannot be parsed, or a stamp
  seen,      \* the same in the controller's cache
  stamps,    \* stamps issued so far
  age,       \* the ages of the stamps
  queued,    \* the builder's key is in the work queue
  timer,     \* time until the key is added again, None when it will not be
  pc, hand,  \* the worker's next call, and the annotation it has read
  current,   \* whether the worker's copy of the builder is the newest
  replicas,  \* of the StatefulSet
  edits, faults

worker == <<pc, hand>>
vars == <<timeout, lastUsed, seen, stamps, age, queued, timer, worker, current,
          replicas, edits, faults>>

Init ==
  /\ timeout \in Timeouts
  /\ lastUsed = None /\ seen = None
  /\ stamps = 0 /\ age = [n \in 1..MaxStamps |-> 0]
  /\ queued = TRUE /\ timer = None
  /\ pc = "idle" /\ hand = None /\ current = TRUE
  /\ replicas = 0 /\ edits = 0 /\ faults = 0

-----------------------------------------------------------------------------
(* The worker.                                                             *)

BeginReconcile ==
  /\ pc = "idle" /\ queued
  /\ queued' = FALSE
  /\ pc' = "sts" /\ hand' = seen /\ current' = (seen = lastUsed)
  /\ UNCHANGED <<timeout, lastUsed, seen, stamps, age, timer, replicas, edits, faults>>

\* Mutants: a garbled annotation counts as none; a stamp ahead of the clock
\* counts as garbled.
desiredReplicasIfUnparsable(stamp) ==
  IF stamp \in {None, 0} \/ age[stamp] < timeout THEN 1 ELSE 0

desiredReplicasNotAhead(stamp) ==
  IF stamp = None \/ (stamp # 0 /\ age[stamp] \in 0..timeout - 1) THEN 1 ELSE 0

desiredReplicas(stamp) ==
  IF stamp = None \/ (stamp # 0 /\ age[stamp] < timeout) THEN 1 ELSE 0

\* Mutant: the error is not returned.
FailUnreported == pc' = "idle" /\ hand' = None /\ current' = TRUE /\ queued' = queued

\* Errors are retried within a unit of time.
Fail == pc' = "idle" /\ hand' = None /\ current' = TRUE /\ queued' = TRUE

createOrUpdateStatefulSet ==
  /\ pc = "sts"
  /\ \/ /\ replicas' = desiredReplicas(hand)
        /\ pc' = "status" /\ UNCHANGED <<hand, current, queued, faults>>
     \/ /\ faults < MaxFaults /\ faults' = faults + 1
        /\ replicas' \in {replicas, desiredReplicas(hand)} /\ Fail
  /\ UNCHANGED <<timeout, lastUsed, seen, stamps, age, timer, edits>>

Earlier(t) == IF timer = None \/ t < timer THEN t ELSE timer

\* Mutants: the key is not asked for again while the builder runs; it is asked
\* for when the stamp expires.
publishOnceDown ==
  /\ pc = "status"
  /\ pc' = "idle" /\ hand' = None /\ current' = TRUE
  /\ timer' = IF replicas = 0 THEN Earlier(Period) ELSE timer
  /\ queued' \in {queued, TRUE}
  /\ UNCHANGED <<timeout, lastUsed, seen, stamps, age, replicas, edits, faults>>

publishWhenDue ==
  /\ pc = "status"
  /\ pc' = "idle" /\ hand' = None /\ current' = TRUE
  /\ timer' = IF hand \in {None, 0} THEN timer ELSE Earlier(timeout - age[hand])
  /\ queued' \in {queued, TRUE}
  /\ UNCHANGED <<timeout, lastUsed, seen, stamps, age, replicas, edits, faults>>

\* The status is refused when the copy is outdated.  It carries a time, so
\* writing it is an event of the builder, unless it is the same second still.
updateStatusWithLastScaled ==
  /\ pc = "status"
  /\ \/ /\ current
        /\ pc' = "idle" /\ hand' = None /\ current' = TRUE
        /\ timer' = Earlier(Period) /\ queued' \in {queued, TRUE}
        /\ UNCHANGED faults
     \/ ~current /\ Fail /\ UNCHANGED <<timer, faults>>
     \/ faults < MaxFaults /\ faults' = faults + 1 /\ Fail /\ UNCHANGED timer
  /\ UNCHANGED <<timeout, lastUsed, seen, stamps, age, replicas, edits>>

Reconcile == BeginReconcile \/ createOrUpdateStatefulSet \/ updateStatusWithLastScaled

RestartController ==
  /\ faults < MaxFaults /\ faults' = faults + 1
  /\ Fail /\ timer' = None /\ seen' = lastUsed
  /\ UNCHANGED <<timeout, lastUsed, stamps, age, replicas, edits>>

-----------------------------------------------------------------------------
(* Users, the cache, and time.                                             *)

Annotate(value) == lastUsed' = value /\ current' = FALSE

\* BuilderHub stamps in order; its clock may be ahead of the controller's.
StartBuild(skew) ==
  /\ stamps < MaxStamps /\ stamps' = stamps + 1
  /\ stamps > 0 => -skew <= age[stamps]
  /\ age' = [age EXCEPT ![stamps + 1] = -skew]
  /\ Annotate(stamps + 1)
  /\ UNCHANGED <<timeout, seen, queued, timer, worker, replicas, edits, faults>>

EditLastUsed(value) ==
  /\ edits < MaxEdits /\ edits' = edits + 1
  /\ value # lastUsed /\ Annotate(value)
  /\ UNCHANGED <<timeout, seen, stamps, age, queued, timer, worker, replicas, faults>>

Sync ==
  /\ seen # lastUsed /\ seen' = lastUsed /\ queued' = TRUE
  /\ UNCHANGED <<timeout, lastUsed, stamps, age, timer, worker, current, replicas, edits, faults>>

\* Nothing is left to do until the timer falls due or somebody acts.
Quiet == pc = "idle" /\ ~queued /\ seen = lastUsed

Tick ==
  /\ Quiet
  /\ age' = [n \in 1..MaxStamps |->
               IF n <= stamps /\ age[n] < MaxAge THEN age[n] + 1 ELSE age[n]]
  /\ timer' = IF timer \in {None, 1} THEN None ELSE timer - 1
  /\ queued' = (timer = 1)
  /\ UNCHANGED <<timeout, lastUsed, seen, stamps, worker, current, replicas, edits, faults>>

Next ==
  \/ Reconcile \/ RestartController
  \/ \E skew \in 0..MaxSkew : StartBuild(skew)
  \/ \E value \in {None, 0} : EditLastUsed(value)
  \/ Sync \/ Tick

Spec == Init /\ [][Next]_vars

\* The worker runs, the cache follows, time passes; nobody need use a builder.
FairSpec == Spec /\ WF_vars(Reconcile) /\ WF_vars(Sync) /\ WF_vars(Tick)

-----------------------------------------------------------------------------
(* Properties.                                                             *)

Stamp == {None} \cup 0..stamps

ScalingTypeOK ==
  /\ timeout \in Timeouts /\ stamps \in 0..MaxStamps
  /\ lastUsed \in Stamp /\ seen \in Stamp /\ hand \in Stamp
  /\ age \in [1..MaxStamps -> -MaxSkew..MaxAge]
  /\ queued \in BOOLEAN /\ current \in BOOLEAN
  /\ timer \in 1..Period \cup {None}
  /\ pc \in {"idle", "sts", "status"} /\ replicas \in {0, 1}

InUse == lastUsed = None \/ (lastUsed # 0 /\ age[lastUsed] < timeout)

\* Time passes only with the pod of a builder in use running: a build that
\* starts has it back within a unit of time, though a reconcile that had not
\* yet seen the stamp has just taken it down.
UpInTime == Quiet /\ InUse => replicas = 1

\* An idle builder is taken down when its timeout is over, at the latest a
\* timer period afterwards; a garbled annotation takes it down at once.
DownInTime ==
  Quiet /\ replicas = 1 /\ lastUsed # None =>
    lastUsed # 0 /\ age[lastUsed] < timeout + Period

\* A builder is not taken down while it is in use, unless it was stamped or
\* edited after the reconcile had read it.
NotDownEarly ==
  [][replicas' = 0 /\ replicas = 1 /\ current => ~InUse]_vars

\* Why these hold.  The worker's annotation is the newest unless an edit has made
\* its copy outdated, and the cache's unless the builder is queued again; the
\* StatefulSet has what that annotation asks for when the status is written; a
\* builder that is left alone has a timer running and, while it is up, not much
\* longer to go than the timer; stamps age in the order they were issued in.
HandIsKnown ==
  pc # "idle" =>
    /\ current => hand = lastUsed
    /\ queued \/ hand = seen
    /\ pc = "status" => replicas = desiredReplicas(hand)

LeftAlone ==
  pc = "idle" /\ ~queued =>
    /\ timer # None
    /\ desiredReplicas(seen) = 1 => replicas = 1
    /\ replicas = 1 /\ seen # None => seen # 0 /\ age[seen] + timer < timeout + Period

AgesDescend == \A m, n \in 1..stamps : m < n => age[m] >= age[n]

ScalingInv == ScalingTypeOK /\ HandIsKnown /\ LeftAlone /\ AgesDescend

\* Stamps expire in the order they were issued in.
Expired == {n \in 1..stamps : age[n] >= timeout}

Untimed == INSTANCE ScaleToZero WITH
  known    <- seen,
  hand     <- IF pc = "idle" THEN <<>> ELSE <<hand>>,
  expired  <- Cardinality(Expired)

\* The clock and the timer implement the promise made without them.
ImplementsScaleToZero == Untimed!Spec

=============================================================================
