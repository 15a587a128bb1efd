------------------------ MODULE PublishedStatus_proofs ------------------------
(***************************************************************************)
(* Proof that a status is only published from the current builder, after   *)
(* everything it advertises (StatusDescribesCluster).                      *)
(*                                                                         *)
(* IInv says nothing of what a reconcile has achieved.  WorkDone does, and *)
(* it is inductive relative to IInv: only the worker writes the route and  *)
(* the StatefulSet, the garbage collector takes neither from a builder     *)
(* that exists, and a builder written by others makes the copy outdated.   *)
(* CertNoticed adds what the Secret lacks: its loss is never overlooked,   *)
(* however far its cache trails and whosever Secret it was.                *)
(***************************************************************************)
EXTENDS BuilderController_proofs

-----------------------------------------------------------------------------
(* How the outcomes of a call bear on WorkDone.                            *)

\* A worker that is at no call has nothing to answer for.
LEMMA ReturnForgets ==
  ASSUME pc' = "idle"
  PROVE  WorkDone'
BY DEF WorkDone

\* A step that leaves the worker, the route and the StatefulSet alone.
LEMMA FrameKeepsWork ==
  ASSUME WorkDone, UNCHANGED <<pc, b, desired>>,
         api'["route"] = api["route"], api'["sts"] = api["sts"],
         inhand' = "current" => inhand = "current"
  PROVE  WorkDone'
BY DEF WorkDone, RouteDone, StatefulSetDone

\* A call either takes effect and the worker goes on, or Reconcile returns.
\* No event that is due is lost on the way.
GoesOn(new, next) ==
  /\ api' = new /\ pc' = next
  /\ UNCHANGED <<b, spec, desired, inhand>>
  /\ SecretEventDue => SecretEventDue'

\* A write delivers the events of the objects it changes, and takes none away.
LEMMA StoreKeepsDue ==
  ASSUME NEW new, NEW bumped, Store(new, bumped)
  PROVE  SecretEventDue => SecretEventDue'
BY DEF Store, SecretEventDue

\* A call that fails, applied or not, ends the reconcile.
LEMMA CallOutcomes ==
  ASSUME NEW new, NEW next, Call(new, next)
  PROVE  GoesOn(new, next) \/ pc' = "idle"
<1>1. CASE CallFails(new, {})
  BY <1>1 DEF CallFails, Return
<1>2. CASE CallSucceeds(new, {}) /\ Continue(next)
  <2>1. api' = new
    BY <1>2 DEF CallSucceeds, Store
  <2> QED BY <1>2, <2>1, StoreKeepsDue DEF CallSucceeds, Continue, GoesOn
<1> QED BY <1>1, <1>2 DEF Call

\* So does a create or update that fails or is refused.
LEMMA CreateOrUpdateOutcomes ==
  ASSUME NEW k, NEW object, NEW next, CreateOrUpdate(k, object, next)
  PROVE  GoesOn(With(k, object), next) \/ pc' = "idle"
BY CallOutcomes DEF CreateOrUpdate, Refused, Return

\* A call that finds nothing to do leaves the store alone.
LEMMA SkipGoesOn ==
  ASSUME NEW next, Skip(next)
  PROVE  GoesOn(api, next)
BY DEF Skip, Continue, GoesOn, SecretEventDue

\* What a store with one object replaced says of the other objects.
LEMMA WithOthers ==
  ASSUME IInv, NEW k \in Names, NEW object
  PROVE  /\ With(k, object)[k] = object
         /\ \A n \in Names \ {k} : With(k, object)[n] = api[n]
BY DEF With, IInv, TypeOK, ClusterTypeOK

\* The roles the worker writes, reads or leaves to others.
LEMMA NamedObjects ==
  /\ {"builder", "template", "pods"} \subseteq Names
  /\ {"cm", "route", "secret", "pvc", "sts", "hsvc", "csvc", "ca"} \subseteq Names
BY DEF Names, Children, Owned, Services

-----------------------------------------------------------------------------
(* WorkDone is kept by every step of the worker.                           *)

\* The calls before the route is settled leave nothing to show.
LEMMA EarlyCallsKeepWork ==
  ASSUME IInv, WorkDone,
         \/ ensureBuildkitdConfigMap \/ createHeadlessService
         \/ createNodePortService \/ ensureNamespaceCA \/ ensureBuilderServerCert
  PROVE  WorkDone'
<1>1. /\ pc \in {"cm", "hsvc", "csvc", "ca", "secret"}
      /\ \/ /\ pc' \in {"hsvc", "csvc", "ca", "secret", "route", "delroute"}
            /\ pc' = "delroute" => ~exposureEnabled(b.spec)
            /\ b' = b
         \/ pc' = "idle"
  <2>1. CASE ensureBuildkitdConfigMap
    BY <2>1, CreateOrUpdateOutcomes DEF ensureBuildkitdConfigMap, GoesOn
  <2>2. CASE createHeadlessService
    BY <2>2, CreateOrUpdateOutcomes DEF createHeadlessService, GoesOn
  <2>3. CASE createNodePortService
    <3> DEFINE next == IF exposureEnabled(b.spec) THEN "ca" ELSE "delroute"
    <3>1. pc = "csvc" /\ (GoesOn(With("csvc", serviceForBuilder(b)), next) \/ pc' = "idle")
      BY <2>3, CreateOrUpdateOutcomes DEF createNodePortService
    <3> QED BY <3>1 DEF GoesOn
  <2>4. CASE ensureNamespaceCA
    BY <2>4, CallOutcomes DEF ensureNamespaceCA, GoesOn, Skip, Continue, Refused, Return
  <2>5. CASE ensureBuilderServerCert
    BY <2>5, CallOutcomes, CreateOrUpdateOutcomes
    DEF ensureBuilderServerCert, GoesOn, Skip, Continue
  <2> QED BY <2>1, <2>2, <2>3, <2>4, <2>5
<1>2. CASE pc' = "idle"
  BY <1>2, ReturnForgets
<1>3. CASE /\ pc' \in {"hsvc", "csvc", "ca", "secret", "route", "delroute"}
           /\ pc' = "delroute" => ~exposureEnabled(b.spec)
           /\ b' = b
  BY <1>1, <1>3 DEF WorkDone
<1> QED BY <1>1, <1>2, <1>3

\* The calls on the route settle it.
LEMMA RouteCallsKeepWork ==
  ASSUME IInv, WorkDone, deleteIngressRouteIfExists \/ createOrUpdateIngressRoute
  PROVE  WorkDone'
<1>1. CASE pc' = "idle"
  BY <1>1, ReturnForgets
<1>2. CASE deleteIngressRouteIfExists /\ pc' # "idle"
  <2>1. pc = "delroute" /\ GoesOn(With("route", None), "delsecret")
    BY <1>2, CallOutcomes DEF deleteIngressRouteIfExists
  <2>2. api'["route"] = None
    BY <2>1, WithOthers, NamedObjects DEF GoesOn
  <2> QED BY <2>1, <2>2 DEF WorkDone, RouteDone, GoesOn
<1>3. CASE createOrUpdateIngressRoute /\ pc' # "idle"
  <2>1. pc = "route" /\ GoesOn(With("route", ingressRouteForBuilder(b)), AfterExposure)
    BY <1>3, CallOutcomes DEF createOrUpdateIngressRoute
  <2>2. api'["route"] = ingressRouteForBuilder(b) /\ exposureEnabled(b.spec)
    BY <2>1, WithOthers, NamedObjects DEF GoesOn, IInv, ExposureChecked
  <2>3. AfterExposure \in {"pvc", "sts"}
    BY DEF AfterExposure
  <2> QED BY <2>1, <2>2, <2>3 DEF WorkDone, RouteDone, GoesOn
<1> QED BY <1>1, <1>2, <1>3

\* The later calls on other objects keep the route.
LEMMA LaterCallsKeepWork ==
  ASSUME IInv, WorkDone, deleteBuilderServerCert \/ createOrUpdatePVC
  PROVE  WorkDone'
<1>1. CASE pc' = "idle"
  BY <1>1, ReturnForgets
<1>2. CASE deleteBuilderServerCert /\ pc' # "idle"
  <2>1. pc = "delsecret" /\ GoesOn(With("secret", None), AfterExposure)
    BY <1>2, CallOutcomes DEF deleteBuilderServerCert
  <2>2. api'["route"] = api["route"]
    BY <2>1, WithOthers, NamedObjects DEF GoesOn
  <2>3. AfterExposure \in {"pvc", "sts"}
    BY DEF AfterExposure
  <2> QED BY <2>1, <2>2, <2>3 DEF WorkDone, RouteDone, GoesOn
<1>3. CASE createOrUpdatePVC /\ pc' # "idle"
  <2>1. /\ pc = "pvc"
        /\ GoesOn(api, "sts") \/ GoesOn(With("pvc", pvcForBuilder(b)), "sts")
    BY <1>3, CreateOrUpdateOutcomes, SkipGoesOn DEF createOrUpdatePVC
  <2>2. api'["route"] = api["route"]
    BY <2>1, WithOthers, NamedObjects DEF GoesOn
  <2> QED BY <2>1, <2>2 DEF WorkDone, RouteDone, GoesOn
<1> QED BY <1>1, <1>2, <1>3

\* The StatefulSet is written for the builder in hand, at the scale the
\* status is going to report.
LEMMA StatefulSetKeepsWork ==
  ASSUME IInv, WorkDone, createOrUpdateStatefulSet
  PROVE  WorkDone'
<1> DEFINE n == desiredReplicas(b)
           sts == statefulSetForBuilder(b, spec, n)
<1>1. CASE pc' = "idle"
  BY <1>1, ReturnForgets
<1>2. CASE pc' # "idle"
  <2>1. /\ pc = "sts" /\ pc' = "status" /\ desired' = n
        /\ api' = With("sts", sts) /\ UNCHANGED <<b, inhand>>
    BY <1>2 DEF createOrUpdateStatefulSet, CallSucceeds, CallFails, Store, Refused, Return
  <2>2. api'["sts"] = sts /\ api'["route"] = api["route"]
    BY <2>1, WithOthers, NamedObjects
  <2>3. sts.owner = b.uid /\ sts.replicas = n /\ sts.selector = labelsForBuilder(b)
    BY DEF statefulSetForBuilder
  <2>4. sts # None
    <3>1. b \in Builder /\ spec \in BuildkitBuilderTemplateSpec /\ b.uid \in Uids
      BY <2>1, AtACall, BuilderFields
    <3>2. sts \in StatefulSetObject(Uids)
      BY <3>1, DesiredReplicasType, WrittenObjects
    <3>3. sts \in StatefulSetObject(Nat)
      BY <3>2, Bounds DEF StatefulSetObject, Uids
    <3> QED BY <3>3, NotFoundAssumption
  <2> HIDE DEF sts, n
  <2> QED BY <2>1, <2>2, <2>3, <2>4 DEF WorkDone, RouteDone, StatefulSetDone
<1> QED BY <1>1, <1>2

\* The first step of a reconcile finds a builder, and the last ones return.
LEMMA EndsKeepWork ==
  ASSUME IInv, WorkDone,
         \/ BeginReconcile \/ reconcileDelete
         \/ publishPersistent \/ publishSleepy \/ RestartController
  PROVE  WorkDone'
<1>1. CASE BeginReconcile
  <2>1. pc' = "idle" \/ (pc' \in {"finalize", "cm"} /\ b' # None)
    BY <1>1 DEF BeginReconcile, Return
  <2> QED BY <2>1 DEF WorkDone
<1>2. CASE reconcileDelete
  BY <1>2, ReturnForgets DEF reconcileDelete, Return, Refused, CallFails
<1>3. CASE publishPersistent \/ publishSleepy
  BY <1>3, ReturnForgets
  DEF publishPersistent, publishSleepy, updateStatus, Return, Refused, CallFails
<1>4. CASE RestartController
  BY <1>4, ReturnForgets DEF RestartController
<1> QED BY <1>1, <1>2, <1>3, <1>4

\* Every step of Reconcile keeps WorkDone.
LEMMA ReconcileKeepsWork == IInv /\ WorkDone /\ Reconcile => WorkDone'
BY EarlyCallsKeepWork, RouteCallsKeepWork, LaterCallsKeepWork,
   StatefulSetKeepsWork, EndsKeepWork
DEF Reconcile

-----------------------------------------------------------------------------
(* WorkDone is kept by the steps of the users and of the cluster.          *)

\* Somebody else writes an object that is neither the route nor the
\* StatefulSet.
LEMMA OthersKeepWork ==
  ASSUME IInv, WorkDone, NEW k \in Names \ {"route", "sts"}, NEW object, NEW bumped,
         StoreByOthers(With(k, object), bumped), UNCHANGED worker
  PROVE  WorkDone'
<1>1. api' = With(k, object) /\ UNCHANGED <<pc, b, desired>>
  BY DEF StoreByOthers, Store, worker
<1>2. inhand' = "current" => inhand = "current"
  BY DEF StoreByOthers
<1>3. api'["route"] = api["route"] /\ api'["sts"] = api["sts"]
  BY <1>1, WithOthers, NamedObjects
<1> QED BY <1>1, <1>2, <1>3, FrameKeepsWork

\* A user who writes the builder outdates the copy the worker holds; what
\* else users write is neither the route nor the StatefulSet.
LEMMA UsersKeepWork == IInv /\ WorkDone /\ Users => WorkDone'
<1> SUFFICES ASSUME IInv, WorkDone, Users PROVE WorkDone'
  OBVIOUS
<1>1. {"builder", "template"} \subseteq Names \ {"route", "sts"}
  BY NamedObjects
<1>2. ASSUME NEW s \in Specs, NEW finalizer \in Finalizers, CreateBuilder(s, finalizer)
      PROVE  WorkDone'
  BY <1>1, <1>2, OthersKeepWork DEF CreateBuilder
<1>3. ASSUME NEW s \in Specs, EditSpec(s) PROVE WorkDone'
  BY <1>1, <1>3, OthersKeepWork DEF EditSpec
<1>4. ASSUME NEW t \in Templates, EditTemplate(t) PROVE WorkDone'
  BY <1>1, <1>4, OthersKeepWork DEF EditTemplate
<1>5. ASSUME NEW v \in {None, 0}, EditLastUsed(v) PROVE WorkDone'
  BY <1>1, <1>5, OthersKeepWork DEF EditLastUsed
<1>6. CASE DeleteBuilder
  BY <1>1, <1>6, OthersKeepWork DEF DeleteBuilder
<1>7. CASE StartBuild
  BY <1>1, <1>7, OthersKeepWork DEF StartBuild
<1>8. CASE EndBuild \/ IdlePeriodEnds
  BY <1>8, FrameKeepsWork DEF EndBuild, IdlePeriodEnds, clusterVars, worker
<1> QED
  BY <1>2, <1>3, <1>4, <1>5, <1>6, <1>7, <1>8 DEF Users

\* The route and the StatefulSet of the builder in hand have an owner that
\* exists.
LEMMA GarbageCollectKeepsWork ==
  ASSUME IInv, WorkDone, NEW k \in Children, GarbageCollect(k)
  PROVE  WorkDone'
<1>1. /\ k \in Names /\ api' = With(k, None) /\ UNCHANGED <<pc, b, desired>>
      /\ inhand' = "current" => inhand = "current"
  BY DEF GarbageCollect, StoreByOthers, Store, worker, Names
<1>2. api'[k] = None /\ \A n \in Names \ {k} : api'[n] = api[n]
  BY <1>1, WithOthers
<1>3. ASSUME inhand' = "current"
      PROVE  /\ pc # "idle" /\ b # None
             /\ api[k] # None /\ api[k].owner # b.uid
  <2>1. pc # "idle" /\ api["builder"] = b /\ b # None
    BY <1>1, <1>3 DEF IInv, CopyIsCurrent, WorkDone
  <2> QED BY <2>1 DEF GarbageCollect
<1>4. ASSUME inhand' = "current", RouteDone PROVE RouteDone'
  <2>1. k # "route"
    BY <1>3, <1>4 DEF RouteDone, ingressRouteForBuilder
  <2> QED BY <1>1, <1>2, <1>4, <2>1, NamedObjects DEF RouteDone
<1>5. ASSUME inhand' = "current", StatefulSetDone PROVE StatefulSetDone'
  <2>1. k # "sts"
    BY <1>3, <1>5 DEF StatefulSetDone
  <2> QED BY <1>1, <1>2, <1>5, <2>1, NamedObjects DEF StatefulSetDone
<1> QED BY <1>1, <1>4, <1>5 DEF WorkDone

\* Informers and queue write nothing, the StatefulSet controller writes pods,
\* and the garbage collector takes what has lost its owner.
LEMMA ClusterKeepsWork == IInv /\ WorkDone /\ Cluster => WorkDone'
<1> SUFFICES ASSUME IInv, WorkDone, Cluster PROVE WorkDone'
  OBVIOUS
<1>1. ASSUME UNCHANGED <<api, inhand, worker>> PROVE WorkDone'
  BY <1>1, FrameKeepsWork DEF worker
<1>2. ASSUME NEW n \in Lagging, Sync(n), UNCHANGED <<worker, environment>>
      PROVE  WorkDone'
  BY <1>1, <1>2 DEF Sync
<1>3. ASSUME DelayEnds \/ Resync, UNCHANGED <<worker, environment>>
      PROVE  WorkDone'
  BY <1>1, <1>3 DEF DelayEnds, Resync
<1>4. ASSUME NEW ip \in IPs, PodStarts(ip) \/ PodStops(ip) \/ PodCrashes(ip)
      PROVE  WorkDone'
  <2>1. "pods" \in Names \ {"route", "sts"}
    BY NamedObjects
  <2>2. /\ \E object, bumped : StoreByOthers(With("pods", object), bumped)
        /\ UNCHANGED worker
    BY <1>4 DEF PodStarts, PodStops, PodCrashes
  <2> QED BY <2>1, <2>2, OthersKeepWork
<1> QED
  BY <1>2, <1>3, <1>4, GarbageCollectKeepsWork DEF Cluster

\* WorkDone, with IInv, is an invariant of the specification.
THEOREM WorkIsDone == Spec => []WorkDone
<1>1. Init => WorkDone
  BY DEF Init, WorkDone
<1>2. IInv /\ WorkDone /\ [Next]_vars => WorkDone'
  <2> SUFFICES ASSUME IInv, WorkDone, [Next]_vars PROVE WorkDone'
    OBVIOUS
  <2>1. CASE UNCHANGED vars
    BY <2>1, FrameKeepsWork DEF vars, clusterVars, worker
  <2> QED
    BY <2>1, ReconcileKeepsWork, EndsKeepWork, UsersKeepWork, ClusterKeepsWork DEF Next
<1> QED
  BY <1>1, <1>2, Invariant, PTL DEF Spec

-----------------------------------------------------------------------------
(* No loss of the certificate is overlooked.                               *)

\* A worker that is at no call that relies on the certificate.
LEMMA ElsewhereNothingToNotice ==
  ASSUME pc' \notin {"route", "pvc", "sts", "status"}
  PROVE  CertNoticed'
BY DEF CertNoticed

\* The Secret stays, the worker stays past ensureBuilderServerCert with the
\* same builder, and no event is lost.
LEMMA FrameKeepsNotice ==
  ASSUME CertNoticed, pc' = pc \/ pc \in {"route", "pvc", "sts"}, b' = b,
         api'["secret"] = api["secret"], SecretEventDue => SecretEventDue'
  PROVE  CertNoticed'
BY DEF CertNoticed, CertInPlace

\* A write of the Secret is an event of the Secret.
LEMMA SecretWriteNoticed ==
  ASSUME NEW new, NEW bumped, Store(new, bumped), new["secret"] # api["secret"]
  PROVE  SecretEventDue'
BY NamedObjects DEF Store, SecretEventDue, Watched

\* A certificate for the builder in hand is an object.
LEMMA ServerCertExists ==
  ASSUME IInv, pc = "secret", NEW owner \in Uids
  PROVE  serverCert(owner, b) # None
<1>1. /\ b \in Builder /\ spec \in BuildkitBuilderTemplateSpec
      /\ exposureEnabled(b.spec) /\ b.spec.exposure.host # None
  BY AtACall DEF IInv, ExposureChecked
<1>2. serverCert(owner, b) \in HostObject(Uids)
  BY <1>1, WrittenObjects
<1>3. serverCert(owner, b) \in HostObject(Nat)
  BY <1>2, Bounds DEF HostObject, Uids
<1> QED BY <1>3, NotFoundAssumption

\* ensureBuilderServerCert leaves a certificate for the host, or it has judged
\* by a cached copy that is not the stored one: then the event is still due.
LEMMA ensureBuilderServerCertNotices ==
  ASSUME IInv, ensureBuilderServerCert
  PROVE  CertNoticed'
<1>1. /\ pc = "secret" /\ b.uid \in Uids
      /\ seen["secret"] # api["secret"] => SecretEventDue
  <2>1. pc = "secret" /\ b.uid \in Uids
    BY AtACall, BuilderFields DEF ensureBuilderServerCert
  <2>2. seen["secret"] # api["secret"] => SecretEventDue
    BY NamedObjects DEF IInv, CachesAgree, SecretEventDue
  <2> QED BY <2>1, <2>2
<1>2. seen["secret"] # None => seen["secret"].owner \in Uids
  <2>1. seen["secret"] \in HostObject(Uids) \cup {None}
    BY <1>1, AtACall, ObjectKinds
  <2> QED BY <2>1 DEF HostObject
<1>3. CASE Skip("route") /\ (CertUsable \/ seen["secret"] # api["secret"])
  <2>1. GoesOn(api, "route")
    BY <1>3, SkipGoesOn
  <2>2. CertInPlace(b.spec.exposure.host) \/ SecretEventDue
    BY <1>1, <1>3 DEF CertUsable, CertInPlace
  <2> QED BY <2>1, <2>2 DEF GoesOn, CertNoticed, CertInPlace
<1>4. ASSUME NEW owner \in Uids,
             \/ Call(With("secret", serverCert(owner, b)), "route")
             \/ CreateOrUpdate("secret", serverCert(owner, b), "route")
      PROVE  CertNoticed'
  <2>1. CASE pc' = "idle"
    BY <2>1, ElsewhereNothingToNotice
  <2>2. CASE GoesOn(With("secret", serverCert(owner, b)), "route")
    <3>1. api'["secret"] = serverCert(owner, b) /\ b' = b
      BY <2>2, WithOthers, NamedObjects DEF GoesOn
    <3>2. api'["secret"] # None /\ api'["secret"].host = b.spec.exposure.host
      BY <1>1, <3>1, ServerCertExists DEF serverCert
    <3> QED BY <3>1, <3>2 DEF CertNoticed, CertInPlace
  <2> QED BY <1>4, <2>1, <2>2, CallOutcomes, CreateOrUpdateOutcomes
<1>5. \/ Skip("route") /\ (CertUsable \/ seen["secret"] # api["secret"])
      \/ Call(With("secret", serverCert(b.uid, b)), "route")
      \/ /\ seen["secret"] # None
         /\ CreateOrUpdate("secret", serverCert(seen["secret"].owner, b), "route")
  BY DEF ensureBuilderServerCert, CertUsable
<1> QED BY <1>1, <1>2, <1>3, <1>4, <1>5

\* The calls on the route, the PVC and the StatefulSet leave the Secret alone.
LEMMA LaterCallsNotice ==
  ASSUME IInv, CertNoticed,
         createOrUpdateIngressRoute \/ createOrUpdatePVC \/ createOrUpdateStatefulSet
  PROVE  CertNoticed'
<1>1. CASE pc' = "idle"
  BY <1>1, ElsewhereNothingToNotice
<1>2. ASSUME NEW k \in Names \ {"secret"}, NEW object, pc \in {"route", "pvc", "sts"},
             api' \in {api, With(k, object)}, b' = b, SecretEventDue => SecretEventDue'
      PROVE  CertNoticed'
  BY <1>2, WithOthers, NamedObjects, FrameKeepsNotice
<1>3. CASE createOrUpdateIngressRoute /\ pc' # "idle"
  <2>1. /\ pc = "route"
        /\ GoesOn(With("route", ingressRouteForBuilder(b)), AfterExposure)
    BY <1>3, CallOutcomes DEF createOrUpdateIngressRoute
  <2> QED BY <1>2, <2>1, NamedObjects DEF GoesOn
<1>4. CASE createOrUpdatePVC /\ pc' # "idle"
  <2>1. /\ pc = "pvc"
        /\ GoesOn(api, "sts") \/ GoesOn(With("pvc", pvcForBuilder(b)), "sts")
    BY <1>4, CreateOrUpdateOutcomes, SkipGoesOn DEF createOrUpdatePVC
  <2> QED BY <1>2, <2>1, NamedObjects DEF GoesOn
<1>5. CASE createOrUpdateStatefulSet /\ pc' # "idle"
  <2>1. PICK sts : pc = "sts" /\ b' = b /\ Store(With("sts", sts), {})
    BY <1>5 DEF createOrUpdateStatefulSet, CallSucceeds, CallFails, Refused, Return
  <2>2. api' = With("sts", sts)
    BY <2>1 DEF Store
  <2> QED BY <1>2, <2>1, <2>2, StoreKeepsDue, NamedObjects
<1> QED BY <1>1, <1>3, <1>4, <1>5

\* The Secret is deleted for a builder that is not exposed, and the calls
\* before that lead to none that relies on it.
LEMMA EarlierCallsNotice ==
  ASSUME WorkDone,
         \/ ensureBuildkitdConfigMap \/ createHeadlessService
         \/ createNodePortService \/ ensureNamespaceCA
         \/ deleteIngressRouteIfExists \/ deleteBuilderServerCert
  PROVE  CertNoticed'
<1>1. CASE pc' = "idle"
  BY <1>1, ElsewhereNothingToNotice
<1>2. CASE deleteBuilderServerCert /\ pc' # "idle"
  <2>1. pc = "delsecret" /\ UNCHANGED b
    BY <1>2, CallOutcomes DEF deleteBuilderServerCert, GoesOn
  <2>2. ~exposureEnabled(b'.spec)
    BY <2>1 DEF WorkDone
  <2> QED BY <2>2 DEF CertNoticed
<1>3. CASE ensureBuildkitdConfigMap /\ pc' # "idle"
  BY <1>3, CreateOrUpdateOutcomes, ElsewhereNothingToNotice
  DEF ensureBuildkitdConfigMap, GoesOn
<1>4. CASE createHeadlessService /\ pc' # "idle"
  BY <1>4, CreateOrUpdateOutcomes, ElsewhereNothingToNotice
  DEF createHeadlessService, GoesOn
<1>5. CASE createNodePortService /\ pc' # "idle"
  <2> DEFINE next == IF exposureEnabled(b.spec) THEN "ca" ELSE "delroute"
  <2>1. CreateOrUpdate("csvc", serviceForBuilder(b), next)
    BY <1>5 DEF createNodePortService
  <2>2. pc' = next
    BY <1>5, <2>1, CreateOrUpdateOutcomes DEF GoesOn
  <2> QED BY <2>2, ElsewhereNothingToNotice
<1>6. CASE ensureNamespaceCA /\ pc' # "idle"
  <2>1. pc' = "secret"
    BY <1>6, CallOutcomes DEF ensureNamespaceCA, GoesOn, Skip, Continue, Refused, Return
  <2> QED BY <2>1, ElsewhereNothingToNotice
<1>7. CASE deleteIngressRouteIfExists /\ pc' # "idle"
  BY <1>7, CallOutcomes, ElsewhereNothingToNotice DEF deleteIngressRouteIfExists, GoesOn
<1> QED BY <1>1, <1>2, <1>3, <1>4, <1>5, <1>6, <1>7

\* The first step of a reconcile, the last ones, and a restart.
LEMMA EndsNotice ==
  ASSUME \/ BeginReconcile \/ reconcileDelete
         \/ publishPersistent \/ publishSleepy \/ RestartController
  PROVE  CertNoticed'
<1>1. pc' \in {"idle", "finalize", "cm"}
  BY DEF BeginReconcile, reconcileDelete, publishPersistent, publishSleepy,
         updateStatus, RestartController, Return, Refused, CallFails
<1> QED BY <1>1, ElsewhereNothingToNotice

\* Somebody else writes an object: the Secret, which is noticed, or another.
LEMMA OthersNotice ==
  ASSUME CertNoticed, NEW new, NEW bumped, StoreByOthers(new, bumped), UNCHANGED worker
  PROVE  CertNoticed'
<1>1. Store(new, bumped) /\ api' = new /\ UNCHANGED <<pc, b>>
  BY DEF StoreByOthers, Store, worker
<1>2. CASE new["secret"] # api["secret"]
  BY <1>1, <1>2, SecretWriteNoticed DEF CertNoticed
<1>3. CASE new["secret"] = api["secret"]
  BY <1>1, <1>3, StoreKeepsDue, FrameKeepsNotice
<1> QED BY <1>2, <1>3

\* Users and cluster write through StoreByOthers; what an informer still has to
\* deliver ends up in the queue.
LEMMA EnvironmentNotices ==
  ASSUME CertNoticed, Users \/ Cluster \/ UNCHANGED vars
  PROVE  CertNoticed'
<1>1. ASSUME UNCHANGED <<worker, api>>, SecretEventDue => SecretEventDue'
      PROVE  CertNoticed'
  BY <1>1, FrameKeepsNotice DEF worker
<1>2. CASE Users
  BY <1>1, <1>2, OthersNotice
  DEF Users, CreateBuilder, EditSpec, EditTemplate, EditLastUsed, DeleteBuilder,
      StartBuild, EndBuild, IdlePeriodEnds, clusterVars, SecretEventDue
<1>3. CASE Cluster
  <2>1. ASSUME NEW n \in Lagging, Sync(n), UNCHANGED <<worker, environment>>
        PROVE  CertNoticed'
    <3>1. SecretEventDue => SecretEventDue'
      BY <2>1 DEF Sync, SecretEventDue, Watched
    <3> QED BY <1>1, <2>1, <3>1 DEF Sync
  <2>2. ASSUME DelayEnds \/ Resync, UNCHANGED <<worker, environment>>
        PROVE  CertNoticed'
    <3>1. UNCHANGED <<worker, api>> /\ SecretEventDue'
      BY <2>2 DEF DelayEnds, Resync, SecretEventDue
    <3> QED BY <1>1, <3>1
  <2>3. ASSUME NEW ip \in IPs, PodStarts(ip) \/ PodStops(ip) \/ PodCrashes(ip)
        PROVE  CertNoticed'
    BY <2>3, OthersNotice DEF PodStarts, PodStops, PodCrashes
  <2>4. ASSUME NEW k \in Children, GarbageCollect(k) PROVE CertNoticed'
    BY <2>4, OthersNotice DEF GarbageCollect
  <2> QED BY <1>3, <2>1, <2>2, <2>3, <2>4 DEF Cluster
<1>4. CASE UNCHANGED vars
  BY <1>1, <1>4 DEF vars, clusterVars, SecretEventDue
<1> QED BY <1>2, <1>3, <1>4

\* Past ensureBuilderServerCert there is a certificate for the host in hand, or
\* the event that will have the builder looked at again is due: for every order
\* of edits, deletions, re-creations, failed calls and restarts, and however far
\* the caches trail.
THEOREM LossIsNoticed == Spec => []CertNoticed
<1>1. Init => CertNoticed
  BY DEF Init, CertNoticed
<1>2. IInv /\ WorkDone /\ CertNoticed /\ [Next]_vars => CertNoticed'
  <2> SUFFICES ASSUME IInv, WorkDone, CertNoticed, [Next]_vars PROVE CertNoticed'
    OBVIOUS
  <2>1. CASE Reconcile \/ RestartController
    BY <2>1, ensureBuilderServerCertNotices, LaterCallsNotice, EarlierCallsNotice,
       EndsNotice
    DEF Reconcile
  <2> QED BY <2>1, EnvironmentNotices DEF Next
<1> QED BY <1>1, <1>2, Invariant, WorkIsDone, PTL DEF Spec

-----------------------------------------------------------------------------
(* Only updateStatus and updateStatusWithLastScaled write a status.        *)

\* A call stores its object or nothing.
LEMMA CallStores ==
  ASSUME NEW k, NEW object, NEW next,
         Call(With(k, object), next) \/ CreateOrUpdate(k, object, next)
  PROVE  api' \in {With(k, object), api}
BY DEF Call, CallSucceeds, CallFails, Store, CreateOrUpdate, Refused

\* A call on a child does not touch the builder.
LEMMA ChildCallKeepsStatus ==
  ASSUME IInv, NEW k \in Names \ {"builder"}, NEW object,
         api' \in {With(k, object), api}
  PROVE  ~StatusWritten
BY WithOthers, NamedObjects DEF StatusWritten

\* The steps of a reconcile before the last.
LEMMA ReconcileKeepsStatus ==
  ASSUME IInv, Reconcile, ~publishPersistent, ~publishSleepy
  PROVE  ~StatusWritten
<1> USE NamedObjects
<1>1. CASE BeginReconcile
  BY <1>1 DEF BeginReconcile, StatusWritten
<1>2. CASE reconcileDelete
  <2>1. api' \in {With("builder", None), api}
    BY <1>2 DEF reconcileDelete, CallSucceeds, CallFails, Store, Refused
  <2> QED BY <2>1, WithOthers DEF StatusWritten
<1>3. CASE ensureBuildkitdConfigMap
  BY <1>3, CallStores, ChildCallKeepsStatus DEF ensureBuildkitdConfigMap
<1>4. CASE createHeadlessService
  BY <1>4, CallStores, ChildCallKeepsStatus DEF createHeadlessService
<1>5. CASE createNodePortService
  <2> DEFINE next == IF exposureEnabled(b.spec) THEN "ca" ELSE "delroute"
  <2>1. CreateOrUpdate("csvc", serviceForBuilder(b), next)
    BY <1>5 DEF createNodePortService
  <2> HIDE DEF next
  <2> QED BY <2>1, CallStores, ChildCallKeepsStatus
<1>6. CASE deleteIngressRouteIfExists \/ deleteBuilderServerCert
  BY <1>6, CallStores, ChildCallKeepsStatus
  DEF deleteIngressRouteIfExists, deleteBuilderServerCert
<1>7. CASE ensureNamespaceCA
  <2>1. Call(With("ca", namespaceCA), "secret") \/ api' = api
    BY <1>7 DEF ensureNamespaceCA, Skip, Refused
  <2> QED BY <2>1, CallStores, ChildCallKeepsStatus
<1>8. CASE ensureBuilderServerCert
  <2>1. \/ Call(With("secret", serverCert(b.uid, b)), "route")
        \/ CreateOrUpdate("secret", serverCert(seen["secret"].owner, b), "route")
        \/ api' = api
    BY <1>8 DEF ensureBuilderServerCert, Skip
  <2> QED BY <2>1, CallStores, ChildCallKeepsStatus
<1>9. CASE createOrUpdateIngressRoute
  BY <1>9, CallStores, ChildCallKeepsStatus DEF createOrUpdateIngressRoute
<1>10. CASE createOrUpdatePVC
  <2>1. CreateOrUpdate("pvc", pvcForBuilder(b), "sts") \/ api' = api
    BY <1>10 DEF createOrUpdatePVC, Skip
  <2> QED BY <2>1, CallStores, ChildCallKeepsStatus
<1>11. CASE createOrUpdateStatefulSet
  <2>1. \E sts : api' \in {With("sts", sts), api}
    BY <1>11 DEF createOrUpdateStatefulSet, CallSucceeds, CallFails, Store, Refused
  <2> QED BY <2>1, ChildCallKeepsStatus
<1> QED
  BY <1>1, <1>2, <1>3, <1>4, <1>5, <1>6, <1>7, <1>8, <1>9, <1>10, <1>11 DEF Reconcile

\* The users write the spec, the annotation or the deletion timestamp, and
\* the cluster other objects.
LEMMA OthersKeepStatus ==
  ASSUME IInv, Users \/ Cluster \/ RestartController \/ UNCHANGED vars
  PROVE  ~StatusWritten
<1> USE NamedObjects
<1>1. ASSUME NEW object, NEW bumped, StoreByOthers(With("builder", object), bumped),
             \/ api["builder"] = None \/ object = None
             \/ object.status = api["builder"].status
      PROVE  ~StatusWritten
  <2>1. api'["builder"] = object
    BY <1>1, WithOthers DEF StoreByOthers, Store
  <2> QED BY <1>1, <2>1 DEF StatusWritten
<1>2. ASSUME NEW k \in Names \ {"builder"}, NEW object, NEW bumped,
             StoreByOthers(With(k, object), bumped)
      PROVE  ~StatusWritten
  BY <1>2, ChildCallKeepsStatus DEF StoreByOthers, Store
<1>3. ASSUME api' = api PROVE ~StatusWritten
  BY <1>3 DEF StatusWritten
<1>4. CASE Users
  <2>1. ASSUME NEW s \in Specs, NEW finalizer \in Finalizers,
               CreateBuilder(s, finalizer)
        PROVE  ~StatusWritten
    BY <2>1 DEF CreateBuilder, StatusWritten
  <2>2. ASSUME NEW s \in Specs, EditSpec(s) PROVE ~StatusWritten
    <3>1. [api["builder"] EXCEPT !.spec = s].status = api["builder"].status
      BY <2>2, StoredBuilder DEF EditSpec, Builder
    <3> QED BY <1>1, <2>2, <3>1 DEF EditSpec
  <2>3. ASSUME NEW t \in Templates, EditTemplate(t) PROVE ~StatusWritten
    BY <1>2, <2>3 DEF EditTemplate
  <2>4. ASSUME NEW v \in {None, 0}, EditLastUsed(v) PROVE ~StatusWritten
    <3>1. [api["builder"] EXCEPT !.lastUsed = v].status = api["builder"].status
      BY <2>4, StoredBuilder DEF EditLastUsed, Builder
    <3> QED BY <1>1, <2>4, <3>1 DEF EditLastUsed
  <2>5. CASE DeleteBuilder
    <3>1. [api["builder"] EXCEPT !.deleting = TRUE].status = api["builder"].status
      BY <2>5, StoredBuilder DEF DeleteBuilder, Builder
    <3> QED BY <1>1, <2>5, <3>1 DEF DeleteBuilder
  <2>6. CASE StartBuild
    <3>1. [api["builder"] EXCEPT !.lastUsed = stamps + 1].status = api["builder"].status
      BY <2>6, StoredBuilder DEF StartBuild, Builder
    <3> QED BY <1>1, <2>6, <3>1 DEF StartBuild
  <2>7. CASE EndBuild \/ IdlePeriodEnds
    BY <1>3, <2>7 DEF EndBuild, IdlePeriodEnds, clusterVars
  <2> QED
    BY <1>4, <2>1, <2>2, <2>3, <2>4, <2>5, <2>6, <2>7 DEF Users
<1>5. CASE Cluster
  <2>1. ASSUME NEW n \in Lagging, Sync(n) PROVE ~StatusWritten
    BY <1>3, <2>1 DEF Sync
  <2>2. CASE DelayEnds \/ Resync
    BY <1>3, <2>2 DEF DelayEnds, Resync
  <2>3. ASSUME NEW ip \in IPs, PodStarts(ip) \/ PodStops(ip) \/ PodCrashes(ip)
        PROVE  ~StatusWritten
    <3>1. \E object, bumped : StoreByOthers(With("pods", object), bumped)
      BY <2>3 DEF PodStarts, PodStops, PodCrashes
    <3> QED BY <1>2, <3>1
  <2>4. ASSUME NEW k \in Children, GarbageCollect(k) PROVE ~StatusWritten
    <3>1. k \in Names \ {"builder"}
      BY DEF Names, Children, Owned, Services
    <3> QED BY <1>2, <2>4, <3>1 DEF GarbageCollect
  <2> QED BY <1>5, <2>1, <2>2, <2>3, <2>4 DEF Cluster
<1>6. CASE RestartController \/ UNCHANGED vars
  BY <1>3, <1>6 DEF RestartController, vars, clusterVars
<1> QED BY <1>4, <1>5, <1>6

-----------------------------------------------------------------------------
(* What a status says when it is published.                                *)

\* updateStatus is accepted from the current copy only, and then the route
\* and the StatefulSet are as the worker left them.
LEMMA PublishDescribes ==
  ASSUME IInv, WorkDone, CertNoticed, publishPersistent \/ publishSleepy, StatusWritten
  PROVE  DescribedBy(api'["builder"].status)
<1>1. pc = "status"
  BY DEF publishPersistent, publishSleepy
<1>2. PICK phase, endpoint, ready, again :
        /\ updateStatus(statusOf(phase, endpoint, ready), again)
        /\ \/ endpoint = None /\ phase = "ScalingDown"
           \/ endpoint \in resolveStatefulSetEndpoint /\ ready = Cardinality(seen["pods"])
  BY DEF publishPersistent, publishSleepy, Refused, StatusWritten
<1> DEFINE status == statusOf(phase, endpoint, ready)
           x == [api["builder"] EXCEPT !.status = status]
<1>3. StatusAccepted /\ api' \in {With("builder", x), api}
  BY <1>2 DEF updateStatus, CallSucceeds, CallFails, Store, Refused, StatusWritten
<1>4. api'["builder"] = x
  BY <1>3, WithOthers, NamedObjects DEF StatusWritten
<1>5. x.status = status
  <2>1. api["builder"] \in Builder
    BY StoredBuilder DEF StatusWritten
  <2> QED BY <2>1 DEF Builder
<1>6. api["builder"] = b /\ RouteDone /\ StatefulSetDone
  BY <1>1, <1>3 DEF IInv, CopyIsCurrent, WorkDone, StatusAccepted
<1>7. /\ status.externalHost = externalEndpointForBuilder(b)
      /\ status.desiredReplicas = desired
      /\ status.tlsSecret = exposureEnabled(b.spec)
      /\ status.nodePort = resolveNodePort
      /\ status.endpoint = endpoint /\ status.phase = phase
      /\ status.readyReplicas = ready
  BY DEF statusOf
<1> HIDE DEF status, x
<1>8. DescribedBy(status)
  <2>1. exposureEnabled(b.spec) =>
          /\ status.externalHost = b.spec.exposure.host
          /\ api["route"] = [owner |-> b.uid, host |-> status.externalHost]
    BY <1>6, <1>7 DEF RouteDone, ingressRouteForBuilder, externalEndpointForBuilder
  <2>2. ~exposureEnabled(b.spec) => status.externalHost = None /\ api["route"] = None
    BY <1>6, <1>7 DEF RouteDone, externalEndpointForBuilder
  <2>3. status.tlsSecret => CertInPlace(status.externalHost) \/ SecretEventDue
    BY <1>1, <1>7 DEF CertNoticed, externalEndpointForBuilder
  <2>4. api["csvc"] # None
    BY <1>1 DEF IInv, ServicesWritten, Calls
  <2>5. \/ "pods" \in lag
        \/ /\ status.endpoint \in api["pods"] \cup {None}
           /\ status.phase = "Ready" => status.readyReplicas = Cardinality(api["pods"])
    <3>1. "pods" \in lag \/ seen["pods"] = api["pods"]
      BY NamedObjects DEF IInv, CachesAgree
    <3> QED BY <1>2, <1>7, <3>1 DEF resolveStatefulSetEndpoint
  <2> QED BY <1>6, <1>7, <2>1, <2>2, <2>3, <2>4, <2>5 DEF DescribedBy, StatefulSetDone
<1> QED
  BY <1>4, <1>5, <1>8

\* Whenever updateStatus or updateStatusWithLastScaled publishes a status, it
\* is the status of the current builder: whatever was edited, lost, refused
\* or stale on the way, the route leads to the advertised host, the StatefulSet
\* is this builder's, with the reported scale, the endpoint is a pod's as far as
\* the pods' cache is up to date, and a Secret that is named is there or its loss
\* about to be noticed.
THEOREM StatusIsTrueOfCluster == Spec => StatusDescribesCluster
<1>1. IInv /\ WorkDone /\ CertNoticed /\ [Next]_vars =>
        (StatusWritten => DescribedBy(api'["builder"].status))
  BY PublishDescribes, ReconcileKeepsStatus, OthersKeepStatus DEF Next
<1> QED
  BY <1>1, Invariant, WorkIsDone, LossIsNoticed, PTL DEF Spec, StatusDescribesCluster

=============================================================================
