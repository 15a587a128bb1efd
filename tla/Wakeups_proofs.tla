---------------------------- MODULE Wakeups_proofs ----------------------------
(***************************************************************************)
(* Proof that no wake-up is lost (NoLostWakeup): while the children differ *)
(* from what the builder asks for, the controller will look at it again.   *)
(*                                                                         *)
(* The invariant is WakeupInv, inductive relative to IInv and WorkDone.  A *)
(* reconcile in hand accounts for the children it is past; a reconcile     *)
(* that ends without asking to be repeated accounts for all of them.       *)
(***************************************************************************)
EXTENDS PublishedStatus_proofs

\* What the property needs: the controller does not watch the template, and does
\* not watch the ConfigMap, which may belong to an earlier builder of the name.
OneIncarnation == MaxUids = 1 /\ \A s, t \in Templates : s = t

Kinds == Owned \cup Services

\* Every owner is the one builder there will have been.
LEMMA OneUid ==
  ASSUME OneIncarnation, NEW u \in Uids, NEW v \in Uids
  PROVE  u = v
BY DEF OneIncarnation, Uids

\* The roles the controller writes.
LEMMA KindNames ==
  /\ Kinds = {"cm", "route", "secret", "pvc", "sts", "hsvc", "csvc"}
  /\ Kinds \subseteq Names /\ "ca" \in Names /\ "ca" \notin Kinds
  /\ {"builder", "template", "pods"} \cap (Kinds \cup {"ca"}) = {}
  /\ Watched \subseteq Names /\ "builder" \in Watched
BY DEF Kinds, Owned, Services, Names, Children, Watched

-----------------------------------------------------------------------------
(* What disturbs.                                                          *)

\* A write of a watched object is an event, at once or when its informer has
\* caught up; no write takes an event back.
LEMMA StoreWakes ==
  ASSUME NEW new, NEW bumped, Store(new, bumped), delayed' = delayed, Undisturbed'
  PROVE  Undisturbed /\ \A k \in Watched : new[k] = api[k]
<1> DEFINE written == bumped \cup {n \in Names : new[n] # api[n]}
           prompt == written \ Lagging
<1>1. /\ lag' = lag \cup (written \cap Lagging)
      /\ queued' = (queued \/ prompt \cap Watched # {})
  BY DEF Store
<1>2. ~queued' /\ ~delayed' /\ lag' \cap Watched = {}
  BY DEF Undisturbed
<1>3. ~queued /\ prompt \cap Watched = {}
  BY <1>1, <1>2, Zenon
<1>4. ~delayed
  BY <1>2, Zenon
<1>5. lag \cap Watched = {} /\ written \cap Watched = {}
  BY <1>1, <1>2, <1>3
<1>6. \A k \in Watched : new[k] = api[k]
  BY <1>5, KindNames
<1> QED BY <1>3, <1>4, <1>5, <1>6 DEF Undisturbed

\* The template is nobody's to write.
LEMMA StoreKeepsTemplate ==
  ASSUME TemplateKept, NEW new, NEW bumped, Store(new, bumped),
         new["template"] = api["template"]
  PROVE  TemplateKept' /\ api'["template"] = api["template"]
BY DEF TemplateKept, Store, Names

\* An error, or RequeueAfter, has the builder looked at again.
LEMMA AgainKeepsWake ==
  ASSUME Return(TRUE), TemplateKept'
  PROVE  WakeupInv'
<1>1. pc' = "idle" /\ inhand' = "none" /\ delayed' = (delayed \/ TRUE)
  BY DEF Return
<1>2. ~Undisturbed'
  BY <1>1, Zenon DEF Undisturbed
<1> QED BY <1>1, <1>2 DEF WakeupInv, SpecResolved, WorkInSync, RestInSync

\* A call that is refused, or that fails, applied or not.
LEMMA ErrorsKeepWake ==
  ASSUME IInv, WakeupInv, NEW k \in Names \ {"template"}, NEW object, NEW bumped,
         Refused \/ CallFails(With(k, object), bumped)
  PROVE  WakeupInv'
<1>1. TemplateKept /\ With(k, object)["template"] = api["template"]
  BY WithOthers, NamedObjects DEF WakeupInv
<1>2. TemplateKept'
  <2>1. CASE Refused
    BY <1>1, <2>1 DEF Refused, TemplateKept
  <2>2. CASE CallFails(With(k, object), bumped)
    BY <1>1, <2>2, StoreKeepsTemplate DEF CallFails
  <2> QED BY <2>1, <2>2
<1> QED BY <1>2, AgainKeepsWake DEF Refused, CallFails

-----------------------------------------------------------------------------
(* The reconcile goes on.                                                  *)

\* A child that is as asked stays so while nobody writes it.
LEMMA AskedStays ==
  ASSUME NEW k \in Kinds, UNCHANGED <<b, spec>>, k = "sts" => desired' = desired,
         api'[k] = api[k], Asked(k, api[k])
  PROVE  Asked(k, api[k])'
BY DEF Asked, Kinds, Owned, Services

\* A child that is written as asked is as asked.
LEMMA AskedWritten ==
  ASSUME NEW k \in Kinds, NEW object, UNCHANGED <<b, spec>>, k # "sts",
         api'[k] = object, Asked(k, object)
  PROVE  Asked(k, api[k])'
BY DEF Asked, Kinds, Owned, Services

\* The worker is past a child when it has found or made it as asked.
LEMMA GoingOnKeepsWake ==
  ASSUME WakeupInv, pc # "idle", pc' # "idle", TemplateKept',
         UNCHANGED <<b, spec, inhand>>, api'["template"] = api["template"],
         Undisturbed' => Undisturbed,
         \A k \in Kinds :
           pc' \in Following(k) /\ inhand = "current" /\ Undisturbed' =>
             \/ /\ pc \in Following(k) /\ api'[k] = api[k]
                /\ k = "sts" => desired' = desired
             \/ Asked(k, api[k])'
  PROVE  WakeupInv'
<1>1. SpecResolved' /\ RestInSync'
  BY DEF WakeupInv, SpecResolved, RestInSync
<1>2. WorkInSync'
  <2> SUFFICES ASSUME inhand = "current", Undisturbed', NEW k \in Kinds,
                      pc' \in Following(k)
               PROVE  Asked(k, api[k])'
    BY DEF WorkInSync, Kinds
  <2>1. CASE /\ pc \in Following(k) /\ api'[k] = api[k]
             /\ k = "sts" => desired' = desired
    <3>1. Asked(k, api[k])
      BY <2>1 DEF WakeupInv, WorkInSync, Kinds
    <3> QED BY <2>1, <3>1, AskedStays
  <2> QED BY <2>1
<1> QED BY <1>1, <1>2 DEF WakeupInv

\* The calls come in an order: before `next` the worker was past every child it
\* is past then, but for the one of this call and a claim that is not used.
InOrder(k, next) ==
  \A j \in Kinds \ {k} :
    next \in Following(j) => pc \in Following(j) \/ (j = "pvc" /\ ~UsesPVC(spec))

\* A call that writes child k, or the CA, and goes on to `next`.
LEMMA CallKeepsWake ==
  ASSUME IInv, WakeupInv, pc # "idle",
         NEW k \in (Kinds \ {"sts"}) \cup {"ca"}, NEW object,
         NEW next \in Calls \ {"status"}, InOrder(k, next),
         k \in Kinds /\ next \in Following(k) => Asked(k, object),
         Call(With(k, object), next) \/ CreateOrUpdate(k, object, next)
  PROVE  WakeupInv'
<1>1. k \in Names \ {"builder", "template"}
  BY KindNames
<1>2. CASE Refused \/ CallFails(With(k, object), {})
  BY <1>1, <1>2, ErrorsKeepWake
<1>3. CASE CallSucceeds(With(k, object), {}) /\ Continue(next)
  <2>1. /\ Store(With(k, object), {}) /\ api' = With(k, object)
        /\ pc' = next /\ UNCHANGED <<b, spec, desired, inhand, delayed>>
    BY <1>3 DEF CallSucceeds, Continue, Store
  <2>2. /\ api'[k] = object
        /\ \A n \in Names \ {k} : api'[n] = api[n]
    BY <1>1, <2>1, WithOthers
  <2>3. TemplateKept' /\ api'["template"] = api["template"]
    BY <1>1, <2>1, <2>2, StoreKeepsTemplate, NamedObjects DEF WakeupInv
  <2>4. Undisturbed' => Undisturbed
    BY <2>1, StoreWakes
  <2>5. ASSUME NEW j \in Kinds, pc' \in Following(j)
        PROVE  \/ /\ pc \in Following(j) /\ api'[j] = api[j]
                  /\ j = "sts" => desired' = desired
               \/ Asked(j, api[j])'
    <3>1. CASE j = k
      BY <2>1, <2>2, <2>5, <3>1, AskedWritten, KindNames
    <3>2. CASE j # k /\ pc \in Following(j)
      BY <2>1, <2>2, <3>2, KindNames
    <3>3. CASE j = "pvc" /\ ~UsesPVC(spec)
      BY <2>1, <3>3 DEF Asked, Services
    <3> QED BY <2>1, <2>5, <3>1, <3>2, <3>3 DEF InOrder
  <2>6. pc' # "idle"
    BY <2>1 DEF Calls
  <2> QED BY <2>1, <2>3, <2>4, <2>5, <2>6, GoingOnKeepsWake
<1> QED BY <1>2, <1>3 DEF Call, CreateOrUpdate

\* There was nothing to write: child k is as asked, or nothing will be missed.
LEMMA SkipKeepsWake ==
  ASSUME IInv, WakeupInv, pc # "idle",
         NEW k \in (Kinds \ {"sts"}) \cup {"ca"}, NEW next \in Calls \ {"status"},
         InOrder(k, next), Skip(next),
         k \in Kinds /\ next \in Following(k) /\ Undisturbed => Asked(k, api[k])
  PROVE  WakeupInv'
<1>1. /\ pc' = next
      /\ UNCHANGED <<api, seen, lag, queued, b, spec, desired, inhand, delayed>>
  BY DEF Skip, Continue
<1>2. TemplateKept' /\ api'["template"] = api["template"] /\ pc' # "idle"
  BY <1>1 DEF WakeupInv, TemplateKept, Calls
<1>3. Undisturbed' => Undisturbed
  BY <1>1, Zenon DEF Undisturbed
<1>4. ASSUME NEW j \in Kinds, pc' \in Following(j), Undisturbed'
      PROVE  \/ /\ pc \in Following(j) /\ api'[j] = api[j]
                /\ j = "sts" => desired' = desired
             \/ Asked(j, api[j])'
  <2>1. CASE j = k
    BY <1>1, <1>3, <1>4, <2>1, AskedStays
  <2>2. CASE j # k /\ pc \in Following(j)
    BY <1>1, <2>2
  <2>3. CASE j = "pvc" /\ ~UsesPVC(spec)
    BY <1>1, <2>3 DEF Asked, Services
  <2> QED BY <1>1, <1>4, <2>1, <2>2, <2>3 DEF InOrder
<1> QED BY <1>1, <1>2, <1>3, <1>4, GoingOnKeepsWake

-----------------------------------------------------------------------------
(* The calls on the children.                                              *)

\* The ConfigMap keeps the owner it has, who is this builder.
LEMMA ensureBuildkitdConfigMapKeepsWake ==
  ASSUME OneIncarnation, IInv, WakeupInv, ensureBuildkitdConfigMap
  PROVE  WakeupInv'
<1> DEFINE owner == IF seen["cm"] = None THEN b.uid ELSE seen["cm"].owner
           cm == buildkitdConfigMap(owner, b, spec)
<1>1. pc = "cm" /\ CreateOrUpdate("cm", cm, "hsvc")
  BY DEF ensureBuildkitdConfigMap
<1>2. owner = b.uid
  <2>1. b.uid \in Uids /\ seen["cm"] \in ConfigMapObject(Uids) \cup {None}
    BY <1>1, AtACall, BuilderFields, ObjectKinds, NamedObjects
  <2>2. seen["cm"] # None => seen["cm"].owner \in Uids
    BY <2>1 DEF ConfigMapObject
  <2> QED BY <2>1, <2>2, OneUid
<1>3. Asked("cm", cm)
  BY <1>2 DEF Asked, Services
<1> HIDE DEF cm, owner
<1>4. InOrder("cm", "hsvc")
  BY <1>1, KindNames DEF InOrder, Following, Calls
<1>5. "cm" \in Kinds \ {"sts"} /\ "hsvc" \in Calls \ {"status"}
  BY KindNames DEF Calls
<1> QED BY <1>1, <1>3, <1>4, <1>5, CallKeepsWake

\* The Services are written whatever they were.
LEMMA ServiceCallsKeepWake ==
  ASSUME IInv, WakeupInv, createHeadlessService \/ createNodePortService
  PROVE  WakeupInv'
<1> USE KindNames
<1>1. /\ {"hsvc", "csvc"} \subseteq Kinds \ {"sts"}
      /\ {"csvc", "ca", "delroute"} \subseteq Calls \ {"status"}
      /\ Asked("hsvc", serviceForBuilder(b)) /\ Asked("csvc", serviceForBuilder(b))
  BY DEF Calls, Asked, Services
<1>2. CASE createHeadlessService
  <2>1. pc = "hsvc" /\ CreateOrUpdate("hsvc", serviceForBuilder(b), "csvc")
    BY <1>2 DEF createHeadlessService
  <2>2. InOrder("hsvc", "csvc")
    BY <2>1 DEF InOrder, Following, Calls
  <2> QED BY <1>1, <2>1, <2>2, CallKeepsWake
<1>3. CASE createNodePortService
  <2> DEFINE next == IF exposureEnabled(b.spec) THEN "ca" ELSE "delroute"
  <2>1. pc = "csvc" /\ CreateOrUpdate("csvc", serviceForBuilder(b), next)
    BY <1>3 DEF createNodePortService
  <2>2. InOrder("csvc", next) /\ next \in Calls \ {"status"}
    BY <1>1, <2>1 DEF InOrder, Following, Calls
  <2> HIDE DEF next
  <2> QED BY <1>1, <2>1, <2>2, CallKeepsWake
<1> QED BY <1>2, <1>3

\* A claim is not missed where none is used.
LEMMA AfterExposureInOrder ==
  ASSUME NEW k \in {"route", "secret"},
         pc = IF exposureEnabled(b.spec) THEN "route" ELSE "delsecret",
         k = IF exposureEnabled(b.spec) THEN "route" ELSE "secret"
  PROVE  InOrder(k, AfterExposure) /\ AfterExposure \in Calls \ {"status"}
<1>1. \/ AfterExposure = "pvc"
      \/ AfterExposure = "sts" /\ ~UsesPVC(spec)
  BY DEF AfterExposure
<1> QED BY <1>1, KindNames DEF InOrder, Following, Calls

\* The route and the certificate of a builder that is not exposed go.
LEMMA DeleteCallsKeepWake ==
  ASSUME IInv, WorkDone, WakeupInv,
         deleteIngressRouteIfExists \/ deleteBuilderServerCert
  PROVE  WakeupInv'
<1> USE KindNames
<1>1. /\ ~exposureEnabled(b.spec)
      /\ Asked("route", None) /\ Asked("secret", None)
  <2>1. ~exposureEnabled(b.spec)
    BY DEF WorkDone, deleteIngressRouteIfExists, deleteBuilderServerCert
  <2> QED BY <2>1 DEF Asked, Services
<1>2. CASE deleteIngressRouteIfExists
  <2>1. pc = "delroute" /\ Call(With("route", None), "delsecret")
    BY <1>2 DEF deleteIngressRouteIfExists
  <2>2. InOrder("route", "delsecret") /\ "delsecret" \in Calls \ {"status"}
    BY <2>1 DEF InOrder, Following, Calls
  <2> QED BY <1>1, <2>1, <2>2, CallKeepsWake
<1>3. CASE deleteBuilderServerCert
  <2>1. pc = "delsecret" /\ Call(With("secret", None), AfterExposure)
    BY <1>3 DEF deleteBuilderServerCert
  <2>2. InOrder("secret", AfterExposure) /\ AfterExposure \in Calls \ {"status"}
    BY <1>1, <2>1, AfterExposureInOrder
  <2> QED BY <1>1, <2>1, <2>2, CallKeepsWake
<1> QED BY <1>2, <1>3

\* The CA is not one of the children the builder is judged by.
LEMMA ensureNamespaceCAKeepsWake ==
  ASSUME IInv, WakeupInv, ensureNamespaceCA
  PROVE  WakeupInv'
<1>1. pc = "ca"
  BY DEF ensureNamespaceCA
<1>2. /\ InOrder("ca", "secret") /\ "secret" \in Calls \ {"status"}
      /\ "ca" \notin Kinds /\ "ca" \in Names \ {"template"}
  BY <1>1, KindNames DEF InOrder, Following, Calls
<1>3. CASE Refused
  BY <1>2, <1>3, ErrorsKeepWake
<1>4. CASE Skip("secret")
  BY <1>1, <1>2, <1>4, SkipKeepsWake
<1>5. CASE Call(With("ca", namespaceCA), "secret")
  BY <1>1, <1>2, <1>5, CallKeepsWake
<1>6. CASE /\ seen' = [seen EXCEPT !["ca"] = api["ca"]] /\ lag' = lag \ {"ca"}
           /\ Continue("secret") /\ UNCHANGED <<api, queued, environment>>
  <2>1. /\ pc' = "secret" /\ seen'["template"] = seen["template"]
        /\ UNCHANGED <<api, b, spec, desired, inhand, delayed, queued>>
    BY <1>6 DEF Continue, IInv, TypeOK, ClusterTypeOK
  <2>2. TemplateKept'
    BY <2>1 DEF WakeupInv, TemplateKept
  <2>3. Undisturbed' => Undisturbed
    <3>1. lag' \cap Watched = lag \cap Watched
      BY <1>6 DEF Watched
    <3> QED BY <2>1, <3>1, Zenon DEF Undisturbed
  <2>4. \A k \in Kinds : pc' \in Following(k) => pc \in Following(k) /\ k # "sts"
    BY <1>1, <1>2, <2>1, KindNames DEF Following, Calls
  <2> QED BY <1>1, <2>1, <2>2, <2>3, <2>4, GoingOnKeepsWake
<1> QED BY <1>3, <1>4, <1>5, <1>6 DEF ensureNamespaceCA

\* A certificate that is taken for good from a cache that trails will be looked
\* at again: the Secret is watched.
LEMMA ensureBuilderServerCertKeepsWake ==
  ASSUME OneIncarnation, IInv, WakeupInv, ensureBuilderServerCert
  PROVE  WakeupInv'
<1> USE KindNames
<1>1. /\ pc = "secret" /\ b.uid \in Uids /\ exposureEnabled(b.spec)
      /\ api["secret"] \in HostObject(Uids) \cup {None}
      /\ seen["secret"] \in HostObject(Uids) \cup {None}
  <2>1. pc = "secret"
    BY DEF ensureBuilderServerCert
  <2> QED BY <2>1, AtACall, BuilderFields, ObjectKinds DEF IInv, ExposureChecked
<1>2. /\ InOrder("secret", "route") /\ "route" \in Calls \ {"status"}
      /\ "secret" \in Kinds \ {"sts"}
  BY <1>1 DEF InOrder, Following, Calls
<1>3. Undisturbed => seen["secret"] = api["secret"]
  BY DEF Undisturbed, Watched, IInv, CachesAgree
<1>4. \A owner \in Uids : Asked("secret", serverCert(owner, b))
  BY <1>1, OneUid DEF Asked, Services, serverCert
<1>5. CASE CertUsable /\ Skip("route")
  <2>1. seen["secret"] = serverCert(seen["secret"].owner, b) /\ seen["secret"].owner \in Uids
    BY <1>1, <1>5 DEF CertUsable, HostObject, serverCert
  <2>2. Undisturbed => Asked("secret", api["secret"])
    BY <1>3, <1>4, <2>1
  <2> QED BY <1>1, <1>2, <1>5, <2>2, SkipKeepsWake
<1>6. CASE seen["secret"] = None /\ api["secret"] # None /\ Skip("route")
  BY <1>1, <1>2, <1>3, <1>6, SkipKeepsWake
<1>7. CASE Call(With("secret", serverCert(b.uid, b)), "route")
  BY <1>1, <1>2, <1>4, <1>7, CallKeepsWake
<1>8. CASE /\ seen["secret"] # None
           /\ CreateOrUpdate("secret", serverCert(seen["secret"].owner, b), "route")
  <2>1. seen["secret"].owner \in Uids
    BY <1>1, <1>8 DEF HostObject
  <2> QED BY <1>1, <1>2, <1>4, <1>8, <2>1, CallKeepsWake
<1> QED BY <1>5, <1>6, <1>7, <1>8 DEF ensureBuilderServerCert

LEMMA createOrUpdateIngressRouteKeepsWake ==
  ASSUME IInv, WakeupInv, createOrUpdateIngressRoute
  PROVE  WakeupInv'
<1> USE KindNames
<1>1. /\ pc = "route" /\ exposureEnabled(b.spec)
      /\ Call(With("route", ingressRouteForBuilder(b)), AfterExposure)
  BY DEF createOrUpdateIngressRoute, IInv, ExposureChecked
<1>2. InOrder("route", AfterExposure) /\ AfterExposure \in Calls \ {"status"}
  BY <1>1, AfterExposureInOrder
<1>3. Asked("route", ingressRouteForBuilder(b))
  BY <1>1 DEF Asked, Services
<1> QED BY <1>1, <1>2, <1>3, CallKeepsWake

\* A claim that exists is left alone; one that a trailing cache still shows will
\* be looked at again.
LEMMA createOrUpdatePVCKeepsWake ==
  ASSUME IInv, WakeupInv, createOrUpdatePVC
  PROVE  WakeupInv'
<1> USE KindNames
<1>1. pc = "pvc" /\ b.uid \in Uids
  BY AtACall, BuilderFields DEF createOrUpdatePVC
<1>2. InOrder("pvc", "sts") /\ "sts" \in Calls \ {"status"} /\ "pvc" \in Kinds \ {"sts"}
  BY <1>1 DEF InOrder, Following, Calls
<1>3. Undisturbed => seen["pvc"] = api["pvc"]
  BY DEF Undisturbed, Watched, IInv, CachesAgree
<1>4. Asked("pvc", pvcForBuilder(b))
  <2>1. pvcForBuilder(b) \in PVCObject(Nat)
    BY <1>1, Bounds DEF pvcForBuilder, PVCObject, Uids
  <2> QED BY <2>1, NotFoundAssumption DEF Asked, Services
<1>5. CASE seen["pvc"] # None /\ Skip("sts")
  <2>1. Undisturbed => Asked("pvc", api["pvc"])
    BY <1>3, <1>5 DEF Asked, Services
  <2> QED BY <1>1, <1>2, <1>5, <2>1, SkipKeepsWake
<1>6. CASE CreateOrUpdate("pvc", pvcForBuilder(b), "sts")
  BY <1>1, <1>2, <1>4, <1>6, CallKeepsWake
<1> QED BY <1>5, <1>6 DEF createOrUpdatePVC

\* The StatefulSet is written at the scale decided on in this step.
LEMMA createOrUpdateStatefulSetKeepsWake ==
  ASSUME IInv, WakeupInv, createOrUpdateStatefulSet
  PROVE  WakeupInv'
<1> DEFINE n == desiredReplicas(b)
           sts == statefulSetForBuilder(b, spec, n)
<1>1. "sts" \in Names \ {"template"} /\ "sts" \in Kinds
  BY KindNames
<1>2. CASE Refused \/ CallFails(With("sts", sts), {})
  <2> HIDE DEF sts
  <2> QED BY <1>1, <1>2, ErrorsKeepWake
<1>3. CASE /\ pc = "sts" /\ CallSucceeds(With("sts", sts), {})
           /\ pc' = "status" /\ desired' = n
           /\ UNCHANGED <<b, spec, inhand, delayed>>
  <2>1. sts = statefulSetForBuilder(b', spec', desired')
    BY <1>3
  <2>2. b'.spec.mode = "persistent" => desired' = b'.spec.replicas
    BY <1>3 DEF desiredReplicas
  <2> HIDE DEF sts, n
  <2>3. Store(With("sts", sts), {}) /\ api' = With("sts", sts)
    BY <1>3 DEF CallSucceeds, Store
  <2>4. api'["sts"] = sts /\ \A k \in Names \ {"sts"} : api'[k] = api[k]
    BY <1>1, <2>3, WithOthers
  <2>5. TemplateKept' /\ api'["template"] = api["template"]
    BY <1>1, <2>3, <2>4, StoreKeepsTemplate, NamedObjects DEF WakeupInv
  <2>6. Undisturbed' => Undisturbed
    BY <1>3, <2>3, StoreWakes
  <2>7. Asked("sts", api["sts"])'
    BY <2>1, <2>2, <2>4 DEF Asked, Services
  <2>8. ASSUME NEW k \in Kinds \ {"sts"}
        PROVE  pc \in Following(k) /\ api'[k] = api[k]
    BY <1>3, <2>4, KindNames DEF Following, Calls
  <2> QED BY <1>3, <2>5, <2>6, <2>7, <2>8, GoingOnKeepsWake
<1> QED BY <1>2, <1>3 DEF createOrUpdateStatefulSet

-----------------------------------------------------------------------------
(* The reconcile begins and ends.                                          *)

\* A builder that the worker does not see is in a cache that trails; the
\* template is read from one that does not.
LEMMA BeginReconcileKeepsWake ==
  ASSUME IInv, WakeupInv, BeginReconcile
  PROVE  WakeupInv'
<1> DEFINE builder == seen["builder"]
<1>1. UNCHANGED <<api, seen, lag>> /\ TemplateKept'
  BY DEF BeginReconcile, WakeupInv, TemplateKept
<1>2. CASE builder = None /\ Return(FALSE)
  <2>1. pc' = "idle" /\ inhand' = "none"
    BY <1>2 DEF Return
  <2>2. Reconcilable' => api["builder"] # seen["builder"]
    BY <1>1, <1>2 DEF Reconcilable
  <2>3. Reconcilable' => "builder" \in lag
    BY <2>2, KindNames DEF IInv, CachesAgree
  <2>4. Undisturbed' => ~Reconcilable'
    BY <1>1, <2>3, KindNames DEF Undisturbed
  <2> QED BY <1>1, <2>1, <2>4 DEF WakeupInv, SpecResolved, WorkInSync, RestInSync
<1>3. CASE Return(TRUE)
  BY <1>1, <1>3, AgainKeepsWake
<1>4. CASE /\ pc' \in {"finalize", "cm"} /\ b' = builder
           /\ spec' = resolveSpec(builder.spec, seen["template"])
  <2>1. SpecResolved'
    BY <1>1, <1>4 DEF SpecResolved, WakeupInv, TemplateKept
  <2>2. \A k \in Kinds : pc' \notin Following(k)
    BY <1>4, KindNames DEF Following, Calls
  <2> QED BY <1>1, <1>4, <2>1, <2>2 DEF WakeupInv, WorkInSync, RestInSync, Kinds
<1>5. \/ builder = None /\ Return(FALSE)
      \/ Return(TRUE)
      \/ /\ pc' \in {"finalize", "cm"} /\ b' = builder
         /\ spec' = resolveSpec(builder.spec, seen["template"])
  BY DEF BeginReconcile
<1> QED BY <1>2, <1>3, <1>4, <1>5

\* Without its finalizer the builder is gone.
LEMMA reconcileDeleteKeepsWake ==
  ASSUME IInv, WakeupInv, reconcileDelete
  PROVE  WakeupInv'
<1>1. "builder" \in Names \ {"template"}
  BY KindNames
<1>2. CASE Refused \/ CallFails(With("builder", None), {})
  BY <1>1, <1>2, ErrorsKeepWake
<1>3. CASE CallSucceeds(With("builder", None), {}) /\ Return(FALSE)
  <2>1. /\ Store(With("builder", None), {}) /\ api' = With("builder", None)
        /\ pc' = "idle" /\ inhand' = "none"
    BY <1>3 DEF CallSucceeds, Store, Return
  <2>2. api'["builder"] = None /\ With("builder", None)["template"] = api["template"]
    BY <1>1, <2>1, WithOthers, NamedObjects
  <2>3. TemplateKept' /\ ~Reconcilable'
    BY <2>1, <2>2, StoreKeepsTemplate DEF WakeupInv, Reconcilable
  <2> QED BY <2>1, <2>3 DEF WakeupInv, SpecResolved, WorkInSync, RestInSync
<1> QED BY <1>2, <1>3 DEF reconcileDelete

\* Children that are all as asked by the stored builder are in sync.
LEMMA AllAsked ==
  ASSUME api'["builder"] = b, b.spec.mode = "persistent",
         spec = resolveSpec(b.spec, api'["template"]),
         \A k \in Kinds : Asked(k, api'[k])
  PROVE  InSync' /\ api'["builder"].spec.mode = "persistent"
<1>1. /\ Asked("cm", api'["cm"]) /\ Asked("hsvc", api'["hsvc"])
      /\ Asked("csvc", api'["csvc"]) /\ Asked("route", api'["route"])
      /\ Asked("secret", api'["secret"]) /\ Asked("pvc", api'["pvc"])
      /\ Asked("sts", api'["sts"])
  BY KindNames
<1>2. desiredReplicas(api["builder"])' = desired
  BY <1>1 DEF Asked, Services, desiredReplicas
<1> QED BY <1>1, <1>2 DEF InSync, Asked, Services

\* A persistent builder that is done with is not looked at again: unless its own
\* status was news, everything is as asked.
LEMMA publishPersistentKeepsWake ==
  ASSUME IInv, WakeupInv, publishPersistent
  PROVE  WakeupInv'
<1>1. pc = "status" /\ b.spec.mode = "persistent" /\ "builder" \in Names \ {"template"}
  BY KindNames DEF publishPersistent
<1>2. CASE Refused
  BY <1>1, <1>2, ErrorsKeepWake
<1>3. ASSUME NEW object, NEW bumped, inhand = "current",
             CallSucceeds(With("builder", object), bumped), Return(FALSE)
      PROVE  WakeupInv'
  <2>1. /\ Store(With("builder", object), bumped) /\ api' = With("builder", object)
        /\ pc' = "idle" /\ inhand' = "none"
    BY <1>3 DEF CallSucceeds, Store, Return
  <2>2. \A n \in Names \ {"builder"} : api'[n] = api[n]
    BY <1>1, <2>1, WithOthers
  <2>3. TemplateKept' /\ api'["template"] = api["template"]
    BY <1>1, <2>1, <2>2, StoreKeepsTemplate, NamedObjects DEF WakeupInv
  <2>4. ASSUME Undisturbed'
        PROVE  InSync' /\ api'["builder"].spec.mode = "persistent"
    <3>1. delayed' = (delayed \/ FALSE)
      BY <1>3 DEF Return
    <3>2. ~delayed'
      BY <2>4 DEF Undisturbed
    <3>3. ~delayed
      BY <3>1, <3>2, Zenon
    <3>4. Undisturbed /\ api'["builder"] = api["builder"]
      <4>1. delayed \in BOOLEAN /\ delayed' \in BOOLEAN
        BY <3>1 DEF IInv, TypeOK, WorkerTypeOK
      <4>2. delayed' = delayed
        BY <3>2, <3>3, <4>1
      <4> QED BY <2>1, <2>4, <4>2, StoreWakes, KindNames
    <3>5. api["builder"] = b
      BY <1>3 DEF IInv, CopyIsCurrent
    <3>6. \A k \in Kinds : pc \in Following(k)
      BY <1>1, KindNames DEF Following, Calls
    <3>7. \A k \in Kinds : Asked(k, api[k])
      BY <1>3, <3>4, <3>6 DEF WakeupInv, WorkInSync, Kinds
    <3>8. \A k \in Kinds : Asked(k, api'[k])
      BY <2>2, <3>7, KindNames
    <3>9. spec = resolveSpec(b.spec, api'["template"])
      BY <1>1, <2>3 DEF WakeupInv, SpecResolved
    <3> QED BY <1>1, <3>4, <3>5, <3>8, <3>9, AllAsked
  <2> QED BY <2>1, <2>3, <2>4 DEF WakeupInv, SpecResolved, WorkInSync, RestInSync
<1>4. ASSUME NEW object, NEW bumped, CallFails(With("builder", object), bumped)
      PROVE  WakeupInv'
  BY <1>1, <1>4, ErrorsKeepWake
<1> QED BY <1>2, <1>3, <1>4 DEF publishPersistent, updateStatus, StatusAccepted

\* A sleepy builder is always looked at again.
LEMMA publishSleepyKeepsWake ==
  ASSUME IInv, WakeupInv, publishSleepy
  PROVE  WakeupInv'
<1>1. "builder" \in Names \ {"template"}
  BY KindNames
<1>2. CASE Refused
  BY <1>1, <1>2, ErrorsKeepWake
<1>3. ASSUME NEW object, NEW bumped,
             CallSucceeds(With("builder", object), bumped), Return(TRUE)
      PROVE  WakeupInv'
  <2>1. With("builder", object)["template"] = api["template"]
    BY <1>1, WithOthers, NamedObjects
  <2>2. TemplateKept'
    BY <1>3, <2>1, StoreKeepsTemplate DEF CallSucceeds, WakeupInv
  <2> QED BY <1>3, <2>2, AgainKeepsWake
<1>4. ASSUME NEW object, NEW bumped, CallFails(With("builder", object), bumped)
      PROVE  WakeupInv'
  BY <1>1, <1>4, ErrorsKeepWake
<1> QED BY <1>2, <1>3, <1>4 DEF publishSleepy, updateStatus

\* A controller that starts looks at every builder there is.
LEMMA RestartKeepsWake ==
  ASSUME WakeupInv, RestartController
  PROVE  WakeupInv'
<1>1. /\ pc' = "idle" /\ inhand' = "none" /\ api' = api /\ seen' = api
      /\ queued' = (\E n \in Watched : api[n] # None)
  BY DEF RestartController
<1>2. TemplateKept'
  BY <1>1 DEF WakeupInv, TemplateKept
<1>3. Undisturbed' => ~Reconcilable'
  <2>1. Undisturbed' => ~queued'
    BY DEF Undisturbed
  <2>2. ~queued' => api["builder"] = None
    BY <1>1, KindNames
  <2> QED BY <1>1, <2>1, <2>2 DEF Reconcilable
<1> QED BY <1>1, <1>2, <1>3 DEF WakeupInv, SpecResolved, WorkInSync, RestInSync

-----------------------------------------------------------------------------
(* The steps of the users and of the cluster.                              *)

\* In sync means the same in a store that differs in the pods only.
LEMMA StaysInSync ==
  ASSUME \A n \in Names \ {"pods"} : api'[n] = api[n],
         InSync, api["builder"].spec.mode = "persistent"
  PROVE  InSync' /\ api'["builder"].spec.mode = "persistent"
<1>1. \A n \in Names \ {"pods"} : api'[n] = api[n]
  OBVIOUS
<1>2. /\ {"builder", "template"} \cup Kinds \subseteq Names \ {"pods"}
      /\ "cm" \in Kinds /\ "hsvc" \in Kinds /\ "csvc" \in Kinds /\ "route" \in Kinds
      /\ "secret" \in Kinds /\ "pvc" \in Kinds /\ "sts" \in Kinds
  BY KindNames, NamedObjects
<1>3. /\ api'["builder"] = api["builder"] /\ api'["template"] = api["template"]
      /\ api'["cm"] = api["cm"] /\ api'["hsvc"] = api["hsvc"] /\ api'["csvc"] = api["csvc"]
      /\ api'["route"] = api["route"] /\ api'["secret"] = api["secret"]
      /\ api'["pvc"] = api["pvc"] /\ api'["sts"] = api["sts"]
  BY <1>1, <1>2
<1>4. desiredReplicas(api["builder"])' = desiredReplicas(api["builder"])
  BY <1>3 DEF desiredReplicas
<1> QED BY <1>3, <1>4 DEF InSync, Services

\* A step beside the worker: it disturbs, or leaves all but the pods alone.
LEMMA FrameKeepsWake ==
  ASSUME WakeupInv, TemplateKept', UNCHANGED worker,
         api'["template"] = api["template"],
         inhand' = "current" => inhand = "current",
         Undisturbed' => Undisturbed /\ \A n \in Names \ {"pods"} : api'[n] = api[n]
  PROVE  WakeupInv'
<1>1. UNCHANGED <<pc, b, spec, desired>>
  BY DEF worker
<1>2. SpecResolved'
  BY <1>1 DEF WakeupInv, SpecResolved
<1>3. WorkInSync'
  <2> SUFFICES ASSUME inhand' = "current", Undisturbed', NEW k \in Kinds,
                      pc' \in Following(k)
               PROVE  Asked(k, api[k])'
    BY DEF WorkInSync, Kinds
  <2>1. Asked(k, api[k])
    BY <1>1 DEF WakeupInv, WorkInSync, Kinds
  <2>2. api'[k] = api[k]
    BY KindNames
  <2> QED BY <1>1, <2>1, <2>2, AskedStays
<1>4. RestInSync'
  <2> SUFFICES ASSUME pc' = "idle", Undisturbed', Reconcilable'
               PROVE  InSync' /\ api'["builder"].spec.mode = "persistent"
    BY DEF RestInSync
  <2>1. api'["builder"] = api["builder"]
    BY KindNames, NamedObjects
  <2>2. Reconcilable
    BY <2>1 DEF Reconcilable
  <2>3. InSync /\ api["builder"].spec.mode = "persistent"
    BY <1>1, <2>2 DEF WakeupInv, RestInSync
  <2> QED BY <2>3, StaysInSync
<1> QED BY <1>2, <1>3, <1>4 DEF WakeupInv

\* Somebody writes an object that is watched, or a pod.
LEMMA OthersKeepWake ==
  ASSUME IInv, WakeupInv, NEW k \in Watched \cup {"pods"}, NEW object, NEW bumped,
         StoreByOthers(With(k, object), bumped), UNCHANGED worker
  PROVE  WakeupInv'
<1>1. k \in Names \ {"template"}
  BY KindNames, NamedObjects DEF Watched
<1>2. /\ Store(With(k, object), bumped) /\ api' = With(k, object)
      /\ delayed' = delayed
      /\ inhand' = "current" => inhand = "current"
  BY DEF StoreByOthers, Store
<1>3. /\ With(k, object)[k] = object
      /\ \A n \in Names \ {k} : With(k, object)[n] = api[n]
  BY <1>1, WithOthers
<1>4. TemplateKept' /\ api'["template"] = api["template"]
  BY <1>1, <1>2, <1>3, StoreKeepsTemplate, NamedObjects DEF WakeupInv
<1>5. ASSUME Undisturbed'
      PROVE  Undisturbed /\ \A n \in Names \ {"pods"} : api'[n] = api[n]
  <2>1. Undisturbed /\ \A n \in Watched : With(k, object)[n] = api[n]
    BY <1>2, <1>5, StoreWakes
  <2> QED BY <1>2, <1>3, <2>1
<1> QED BY <1>2, <1>4, <1>5, FrameKeepsWake

\* With one builder an owned object is collected after it has gone.
LEMMA GarbageCollectKeepsWake ==
  ASSUME OneIncarnation, IInv, WorkDone, WakeupInv, NEW k \in Children, GarbageCollect(k)
  PROVE  WakeupInv'
<1>1. /\ k \in Names \ {"template", "builder"} /\ Store(With(k, None), {})
      /\ api' = With(k, None) /\ UNCHANGED <<pc, b, spec, desired>>
      /\ inhand' = "current" => inhand = "current"
  BY NamedObjects DEF GarbageCollect, StoreByOthers, Store, worker, Names, Children,
                      Owned, Services
<1>2. \A n \in Names \ {k} : api'[n] = api[n]
  BY <1>1, WithOthers
<1>3. TemplateKept' /\ api'["template"] = api["template"]
  BY <1>1, <1>2, StoreKeepsTemplate, NamedObjects DEF WakeupInv
<1>4. api["builder"] = None
  <2>1. api[k] \in Object(k) /\ api[k] # None /\ api[k].owner # None
    BY <1>1 DEF GarbageCollect, IInv, TypeOK, ClusterTypeOK
  <2>2. k \notin Services \cup {"ca"}
    BY <2>1, ObjectKinds DEF ServiceObject, namespaceCA, Services
  <2>3. k \in {"cm", "route", "secret", "pvc", "sts"}
    BY <2>2 DEF Children, Owned
  <2>4. api[k].owner \in Uids
    BY <2>1, <2>3, ObjectKinds
    DEF ConfigMapObject, HostObject, PVCObject, StatefulSetObject
  <2>5. api["builder"] # None => api["builder"].uid \in Uids
    BY ObjectKinds, BuilderFields, NamedObjects DEF IInv, TypeOK, ClusterTypeOK
  <2> QED BY <2>4, <2>5, OneUid DEF GarbageCollect
<1>5. inhand # "current" /\ ~Reconcilable'
  BY <1>1, <1>2, <1>4, NamedObjects DEF IInv, CopyIsCurrent, WorkDone, Reconcilable
<1>6. SpecResolved'
  BY <1>1, <1>3 DEF WakeupInv, SpecResolved
<1> QED BY <1>1, <1>3, <1>5, <1>6 DEF WakeupInv, WorkInSync, RestInSync

\* The template stays as it is, and a sleepy builder is not at rest.
LEMMA UsersKeepWake ==
  ASSUME OneIncarnation, IInv, WakeupInv, Users
  PROVE  WakeupInv'
<1>1. "builder" \in Watched \cup {"pods"}
  BY KindNames
<1>2. ASSUME NEW s \in Specs, NEW finalizer \in Finalizers, CreateBuilder(s, finalizer)
      PROVE  WakeupInv'
  BY <1>1, <1>2, OthersKeepWake DEF CreateBuilder
<1>3. ASSUME NEW s \in Specs, EditSpec(s) PROVE WakeupInv'
  BY <1>1, <1>3, OthersKeepWake DEF EditSpec
<1>4. ASSUME NEW t \in Templates, EditTemplate(t) PROVE WakeupInv'
  BY <1>4 DEF EditTemplate, OneIncarnation, WakeupInv, TemplateKept
<1>5. ASSUME NEW v \in {None, 0}, EditLastUsed(v) PROVE WakeupInv'
  BY <1>1, <1>5, OthersKeepWake DEF EditLastUsed
<1>6. CASE DeleteBuilder
  BY <1>1, <1>6, OthersKeepWake DEF DeleteBuilder
<1>7. CASE StartBuild
  BY <1>1, <1>7, OthersKeepWake DEF StartBuild
<1>8. CASE EndBuild \/ IdlePeriodEnds
  <2>1. UNCHANGED <<clusterVars, worker>>
    BY <1>8 DEF EndBuild, IdlePeriodEnds
  <2>2. UNCHANGED <<api, seen, lag, queued, delayed, inhand>>
    BY <2>1 DEF clusterVars
  <2>3. TemplateKept' /\ (Undisturbed' => Undisturbed)
    BY <2>2 DEF WakeupInv, TemplateKept, Undisturbed
  <2> QED BY <2>1, <2>2, <2>3, FrameKeepsWake
<1> QED BY <1>2, <1>3, <1>4, <1>5, <1>6, <1>7, <1>8 DEF Users

\* The queue and the caches catch up, pods come and go, objects are collected.
LEMMA ClusterKeepsWake ==
  ASSUME OneIncarnation, IInv, WorkDone, WakeupInv, Cluster
  PROVE  WakeupInv'
<1>1. ASSUME NEW n \in Lagging, Sync(n), UNCHANGED worker
      PROVE  WakeupInv'
  <2>1. /\ UNCHANGED <<api, delayed, inhand>> /\ lag' = lag \ {n}
        /\ queued' = (queued \/ n \in Watched)
        /\ seen' = [seen EXCEPT ![n] = api[n]]
    BY <1>1 DEF Sync
  <2>2. TemplateKept'
    BY <2>1 DEF WakeupInv, TemplateKept
  <2>3. Undisturbed' => Undisturbed
    <3>1. Undisturbed' => ~queued' /\ ~delayed' /\ lag' \cap Watched = {}
      BY DEF Undisturbed
    <3>2. ~queued' => ~queued /\ n \notin Watched
      BY <2>1, Zenon
    <3>3. n \notin Watched /\ lag' \cap Watched = {} => lag \cap Watched = {}
      BY <2>1
    <3>4. ~delayed' => ~delayed
      BY <2>1, Zenon
    <3> QED BY <3>1, <3>2, <3>3, <3>4 DEF Undisturbed
  <2> QED BY <1>1, <2>1, <2>2, <2>3, FrameKeepsWake
<1>2. CASE (DelayEnds \/ Resync) /\ UNCHANGED worker
  <2>1. queued' = TRUE /\ UNCHANGED <<api, seen, inhand>>
    BY <1>2 DEF DelayEnds, Resync
  <2>2. TemplateKept' /\ ~Undisturbed'
    BY <2>1 DEF WakeupInv, TemplateKept, Undisturbed
  <2> QED BY <1>2, <2>1, <2>2, FrameKeepsWake
<1>3. ASSUME NEW ip \in IPs, PodStarts(ip) \/ PodStops(ip) \/ PodCrashes(ip)
      PROVE  WakeupInv'
  BY <1>3, OthersKeepWake DEF PodStarts, PodStops, PodCrashes
<1>4. ASSUME NEW k \in Children, GarbageCollect(k) PROVE WakeupInv'
  BY <1>4, GarbageCollectKeepsWake
<1> QED BY <1>1, <1>2, <1>3, <1>4 DEF Cluster

-----------------------------------------------------------------------------

\* Before there is a builder nothing is asked for.
LEMMA InitEstablishesWake ==
  ASSUME Init
  PROVE  WakeupInv
<1>1. PICK t \in Templates :
        api = [n \in Names |-> CASE n = "template" -> t
                                 [] n = "pods" -> {}
                                 [] OTHER -> None]
  BY DEF Init
<1>2. api["template"] = t /\ api["builder"] = None
  BY <1>1, NamedObjects
<1> QED BY <1>2 DEF Init, WakeupInv, TemplateKept, SpecResolved, WorkInSync,
                    RestInSync, Reconcilable

LEMMA ReconcileKeepsWake ==
  ASSUME OneIncarnation, IInv, WorkDone, WakeupInv, Reconcile
  PROVE  WakeupInv'
BY BeginReconcileKeepsWake, reconcileDeleteKeepsWake,
   ensureBuildkitdConfigMapKeepsWake, ServiceCallsKeepWake, DeleteCallsKeepWake,
   ensureNamespaceCAKeepsWake, ensureBuilderServerCertKeepsWake,
   createOrUpdateIngressRouteKeepsWake, createOrUpdatePVCKeepsWake,
   createOrUpdateStatefulSetKeepsWake, publishPersistentKeepsWake,
   publishSleepyKeepsWake
DEF Reconcile

LEMMA NextKeepsWake ==
  OneIncarnation /\ IInv /\ WorkDone /\ WakeupInv /\ [Next]_vars => WakeupInv'
<1> SUFFICES ASSUME OneIncarnation, IInv, WorkDone, WakeupInv, [Next]_vars
             PROVE  WakeupInv'
  OBVIOUS
<1>1. CASE UNCHANGED vars
  <2>1. UNCHANGED <<api, seen, lag, queued, delayed, inhand, worker>>
    BY <1>1 DEF vars, clusterVars
  <2>2. TemplateKept' /\ (Undisturbed' => Undisturbed)
    BY <2>1 DEF WakeupInv, TemplateKept, Undisturbed
  <2> QED BY <2>1, <2>2, FrameKeepsWake
<1> QED
  BY <1>1, ReconcileKeepsWake, RestartKeepsWake, UsersKeepWake, ClusterKeepsWake
  DEF Next

\* While the builder is the first of its name and its template stays as it is,
\* all that a reconcile is past is as the builder asks.
THEOREM WorkStaysInSync == OneIncarnation => (Spec => []WakeupInv)
<1> SUFFICES ASSUME OneIncarnation PROVE Spec => []WakeupInv
  OBVIOUS
<1>1. IInv /\ WorkDone /\ WakeupInv /\ [Next]_vars => WakeupInv'
  BY NextKeepsWake
<1> QED
  BY <1>1, InitEstablishesWake, Invariant, WorkIsDone, PTL DEF Spec

\* No wake-up is lost: while the children differ from what the builder asks for,
\* a reconcile is running or one is going to be triggered, whatever call failed,
\* whatever was read from a cache that trails and whoever wrote in between.
THEOREM WakeupIsNeverLost == OneIncarnation => (Spec => []NoLostWakeup)
<1> SUFFICES ASSUME OneIncarnation PROVE Spec => []NoLostWakeup
  OBVIOUS
<1>1. WakeupInv => NoLostWakeup
  BY DEF WakeupInv, RestInSync, NoLostWakeup, Awake, Undisturbed
<1> QED
  BY <1>1, WorkStaysInSync, PTL

=============================================================================
