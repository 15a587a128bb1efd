-------------------------- MODULE MissingCert_proofs --------------------------
(***************************************************************************)
(* Proof that a StatefulSet which mounts the TLS Secret is never written   *)
(* while the Secret is missing and nobody has noticed (MissingCertNoticed).*)
(*                                                                         *)
(* CertNoticed says so of the worker at every call past                    *)
(* ensureBuilderServerCert; what is left is that no other step writes a    *)
(* StatefulSet.                                                            *)
(***************************************************************************)
EXTENDS PublishedStatus_proofs

-----------------------------------------------------------------------------
(* Only createOrUpdateStatefulSet writes a StatefulSet.                    *)

\* What a step that does not write the StatefulSet does to it.
NoneWritten == api'["sts"] \in {api["sts"], None}

\* A call on another object does not write it.
LEMMA OtherCallWritesNone ==
  ASSUME IInv, NEW k \in Names \ {"sts"}, NEW object,
         api' \in {With(k, object), api}
  PROVE  NoneWritten
BY WithOthers, NamedObjects DEF NoneWritten

\* The other steps of a reconcile.
LEMMA ReconcileWritesNone ==
  ASSUME IInv, Reconcile, ~createOrUpdateStatefulSet
  PROVE  NoneWritten
<1> USE NamedObjects
<1>1. CASE BeginReconcile
  BY <1>1 DEF BeginReconcile, NoneWritten
<1>2. CASE reconcileDelete \/ publishPersistent \/ publishSleepy
  <2>1. \E x : api' \in {With("builder", x), api}
    BY <1>2 DEF reconcileDelete, publishPersistent, publishSleepy, updateStatus,
                CallSucceeds, CallFails, Store, Refused
  <2> QED BY <2>1, OtherCallWritesNone
<1>3. CASE ensureBuildkitdConfigMap
  BY <1>3, CallStores, OtherCallWritesNone DEF ensureBuildkitdConfigMap
<1>4. CASE createHeadlessService
  BY <1>4, CallStores, OtherCallWritesNone DEF createHeadlessService
<1>5. CASE createNodePortService
  <2> DEFINE next == IF exposureEnabled(b.spec) THEN "ca" ELSE "delroute"
  <2>1. CreateOrUpdate("csvc", serviceForBuilder(b), next)
    BY <1>5 DEF createNodePortService
  <2> HIDE DEF next
  <2> QED BY <2>1, CallStores, OtherCallWritesNone
<1>6. CASE deleteIngressRouteIfExists \/ deleteBuilderServerCert
  BY <1>6, CallStores, OtherCallWritesNone
  DEF deleteIngressRouteIfExists, deleteBuilderServerCert
<1>7. CASE ensureNamespaceCA
  <2>1. Call(With("ca", namespaceCA), "secret") \/ api' = api
    BY <1>7 DEF ensureNamespaceCA, Skip, Refused
  <2> QED BY <2>1, CallStores, OtherCallWritesNone
<1>8. CASE ensureBuilderServerCert
  <2>1. \/ Call(With("secret", serverCert(b.uid, b)), "route")
        \/ CreateOrUpdate("secret", serverCert(seen["secret"].owner, b), "route")
        \/ api' = api
    BY <1>8 DEF ensureBuilderServerCert, Skip
  <2> QED BY <2>1, CallStores, OtherCallWritesNone
<1>9. CASE createOrUpdateIngressRoute
  BY <1>9, CallStores, OtherCallWritesNone DEF createOrUpdateIngressRoute
<1>10. CASE createOrUpdatePVC
  <2>1. CreateOrUpdate("pvc", pvcForBuilder(b), "sts") \/ api' = api
    BY <1>10 DEF createOrUpdatePVC, Skip
  <2> QED BY <2>1, CallStores, OtherCallWritesNone
<1> QED
  BY <1>1, <1>2, <1>3, <1>4, <1>5, <1>6, <1>7, <1>8, <1>9, <1>10 DEF Reconcile

\* The users write the builder and its template, the StatefulSet controller the
\* pods, and the garbage collector only removes.
LEMMA OthersWriteNone ==
  ASSUME IInv, Users \/ Cluster \/ RestartController \/ UNCHANGED vars
  PROVE  NoneWritten
<1> USE NamedObjects
<1>1. ASSUME NEW k \in Names \ {"sts"}, NEW object, NEW bumped,
             StoreByOthers(With(k, object), bumped)
      PROVE  NoneWritten
  BY <1>1, OtherCallWritesNone DEF StoreByOthers, Store
<1>2. ASSUME api' = api PROVE NoneWritten
  BY <1>2 DEF NoneWritten
<1>3. CASE Users
  <2>1. ASSUME NEW s \in Specs, NEW finalizer \in Finalizers, CreateBuilder(s, finalizer)
        PROVE  NoneWritten
    BY <1>1, <2>1 DEF CreateBuilder
  <2>2. ASSUME NEW s \in Specs, EditSpec(s) PROVE NoneWritten
    BY <1>1, <2>2 DEF EditSpec
  <2>3. ASSUME NEW t \in Templates, EditTemplate(t) PROVE NoneWritten
    BY <1>1, <2>3 DEF EditTemplate
  <2>4. ASSUME NEW v \in {None, 0}, EditLastUsed(v) PROVE NoneWritten
    BY <1>1, <2>4 DEF EditLastUsed
  <2>5. CASE DeleteBuilder \/ StartBuild
    BY <1>1, <2>5 DEF DeleteBuilder, StartBuild
  <2>6. CASE EndBuild \/ IdlePeriodEnds
    BY <1>2, <2>6 DEF EndBuild, IdlePeriodEnds, clusterVars
  <2> QED BY <1>3, <2>1, <2>2, <2>3, <2>4, <2>5, <2>6 DEF Users
<1>4. CASE Cluster
  <2>1. ASSUME NEW n \in Lagging, Sync(n) PROVE NoneWritten
    BY <1>2, <2>1 DEF Sync
  <2>2. CASE DelayEnds \/ Resync
    BY <1>2, <2>2 DEF DelayEnds, Resync
  <2>3. ASSUME NEW ip \in IPs, PodStarts(ip) \/ PodStops(ip) \/ PodCrashes(ip)
        PROVE  NoneWritten
    <3>1. \E object, bumped : StoreByOthers(With("pods", object), bumped)
      BY <2>3 DEF PodStarts, PodStops, PodCrashes
    <3> QED BY <1>1, <3>1
  <2>4. ASSUME NEW k \in Children, GarbageCollect(k) PROVE NoneWritten
    <3>1. k \in Names /\ api' = With(k, None)
      BY <2>4 DEF GarbageCollect, StoreByOthers, Store, Names
    <3> QED BY <3>1, WithOthers DEF NoneWritten
  <2> QED BY <1>4, <2>1, <2>2, <2>3, <2>4 DEF Cluster
<1>5. CASE RestartController \/ UNCHANGED vars
  BY <1>2, <1>5 DEF RestartController, vars, clusterVars
<1> QED BY <1>3, <1>4, <1>5

\* The pod of the StatefulSet mounts a certificate when the builder in hand is
\* exposed, and then ensureBuilderServerCert has been passed.
LEMMA StatefulSetWriteNoticed ==
  ASSUME IInv, CertNoticed, createOrUpdateStatefulSet, StatefulSetWritten,
         api'["sts"].pod.tls
  PROVE  api["secret"] # None \/ SecretEventDue
<1> DEFINE sts == statefulSetForBuilder(b, spec, desiredReplicas(b))
<1>1. pc = "sts" /\ api' \in {With("sts", sts), api}
  BY DEF createOrUpdateStatefulSet, CallSucceeds, CallFails, Store, Refused
<1>2. api'["sts"] = sts
  BY <1>1, WithOthers, NamedObjects DEF StatefulSetWritten
<1>3. exposureEnabled(b.spec)
  BY <1>2 DEF statefulSetForBuilder, buildPodSpec
<1> QED BY <1>1, <1>3 DEF CertNoticed, CertInPlace

\* createOrUpdateStatefulSet never writes a StatefulSet with the TLS volume while
\* the Secret is missing, unless the event that has it issued again is due.
THEOREM MissingCertIsNoticed == Spec => MissingCertNoticed
<1>1. IInv /\ CertNoticed /\ [Next]_vars =>
        (StatefulSetWritten /\ api'["sts"].pod.tls
           => api["secret"] # None \/ SecretEventDue)
  <2> SUFFICES ASSUME IInv, CertNoticed, [Next]_vars, StatefulSetWritten,
                      api'["sts"].pod.tls
               PROVE  api["secret"] # None \/ SecretEventDue
    OBVIOUS
  <2>1. ~NoneWritten
    BY DEF NoneWritten, StatefulSetWritten
  <2>2. createOrUpdateStatefulSet
    BY <2>1, ReconcileWritesNone, OthersWriteNone DEF Next
  <2> QED BY <2>2, StatefulSetWriteNoticed
<1> QED BY <1>1, Invariant, LossIsNoticed, PTL DEF Spec, MissingCertNoticed

=============================================================================
