----------------------- MODULE BuilderController_proofs -----------------------
(***************************************************************************)
(* Proofs that the reconcile loop keeps its types and the invariant IInv   *)
(* for every choice of the constants.                                      *)
(*                                                                         *)
(* The lemmas follow the layers of the model: what a Store does to the     *)
(* cluster, what the outcomes of one API call do to the worker, what the   *)
(* pure functions return.  The theorem has one step per action.            *)
(***************************************************************************)
EXTENDS BuilderProperties, FiniteSetTheorems, TLAPS

\* The bounds are natural numbers.
LEMMA Bounds ==
  MaxUids \in Nat /\ MaxEdits \in Nat /\ MaxStamps \in Nat /\ MaxFaults \in Nat
BY ControllerAssumption

\* A store of typed objects keeps the cluster typed and the caches right.
LEMMA StoreKeepsTypes ==
  ASSUME ClusterTypeOK, CachesAgree,
         NEW new, NEW bumped,
         DOMAIN new = Names, \A n \in Names : new[n] \in Object(n),
         bumped \subseteq Names,
         Store(new, bumped)
  PROVE  ClusterTypeOK' /\ CachesAgree' /\ api' = new
<1> DEFINE written == bumped \cup {n \in Names : new[n] # api[n]}
           prompt == written \ Lagging
<1>1. /\ api' = new
      /\ lag' = lag \cup (written \cap Lagging)
      /\ seen' = [n \in Names |-> IF n \in prompt THEN new[n] ELSE seen[n]]
      /\ queued' \in BOOLEAN
  BY DEF Store, ClusterTypeOK
<1>2. ClusterTypeOK'
  BY <1>1 DEF ClusterTypeOK
<1>3. ASSUME NEW n \in Names, n \notin lag'
      PROVE  seen'[n] = api'[n]
  <2>1. n \notin lag /\ n \notin written \cap Lagging
    BY <1>1, <1>3
  <2>2. CASE n \in written
    BY <2>1, <2>2, <1>1
  <2>3. CASE n \notin written
    BY <2>1, <2>3, <1>1 DEF CachesAgree
  <2> QED BY <2>2, <2>3
<1> QED
  BY <1>1, <1>2, <1>3 DEF CachesAgree

\* Replacing one object by another of its kind keeps a store typed.
LEMMA WithIsTyped ==
  ASSUME ClusterTypeOK, NEW k \in Names, NEW object \in Object(k)
  PROVE  /\ DOMAIN With(k, object) = Names
         /\ \A n \in Names : With(k, object)[n] \in Object(n)
         /\ With(k, object)[k] = object
         /\ \A n \in Names \ {k} : With(k, object)[n] = api[n]
BY DEF ClusterTypeOK, With

\* The kinds of the objects, one by one.
LEMMA ObjectKinds ==
  /\ Object("builder") = Builder \cup {None}
  /\ Object("template") = BuildkitBuilderTemplateSpec \cup {None}
  /\ Object("pods") = SUBSET IPs
  /\ Object("cm") = ConfigMapObject(Uids) \cup {None}
  /\ Object("hsvc") = ServiceObject \cup {None}
  /\ Object("csvc") = ServiceObject \cup {None}
  /\ Object("secret") = HostObject(Uids) \cup {None}
  /\ Object("route") = HostObject(Uids) \cup {None}
  /\ Object("pvc") = PVCObject(Uids) \cup {None}
  /\ Object("sts") = StatefulSetObject(Uids) \cup {None}
  /\ Object("ca") = {namespaceCA, None}
BY DEF Object, Services

\* A spec that resolveSpec accepts has a resolved template.
LEMMA ResolvedType ==
  ASSUME NEW s \in BuildkitBuilderSpec,
         NEW t \in BuildkitBuilderTemplateSpec \cup {None},
         ~Unresolvable(s, t)
  PROVE  resolveSpec(s, t) \in BuildkitBuilderTemplateSpec
<1> DEFINE base == IF s.templateRef THEN t ELSE ZeroTemplate
<1>1. ZeroTemplate \in BuildkitBuilderTemplateSpec
  BY DEF ZeroTemplate, BuildkitBuilderTemplateSpec
<1>2. /\ s.templateRef \in BOOLEAN
      /\ s.template \in BuildkitBuilderTemplateSpec \cup {None}
  BY DEF BuildkitBuilderSpec
<1>3. base \in BuildkitBuilderTemplateSpec
  BY <1>1, <1>2 DEF Unresolvable
<1>4. ASSUME NEW x \in BuildkitBuilderTemplateSpec,
             NEW y \in BuildkitBuilderTemplateSpec
      PROVE  mergeSpec(x, y) \in BuildkitBuilderTemplateSpec
  BY DEF mergeSpec, BuildkitBuilderTemplateSpec
<1> QED
  BY <1>2, <1>3, <1>4 DEF resolveSpec

-----------------------------------------------------------------------------
(* The objects the controller writes are of their kinds.                   *)

\* The parts of a builder the controller branches on.
LEMMA BuilderFields ==
  ASSUME NEW x \in Builder
  PROVE  /\ x.uid \in Uids
         /\ x.spec \in BuildkitBuilderSpec
         /\ x.lastUsed \in 0..MaxStamps \cup {None}
         /\ x.spec.mode \in {"persistent", "sleepy"}
         /\ x.spec.replicas \in Nat
         /\ x.spec.labels \in LabelSets
         /\ x.spec.exposure \in ExposureConfig \cup {None}
         /\ exposureEnabled(x.spec) \in BOOLEAN
         /\ exposureEnabled(x.spec) => x.spec.exposure.host \in Hosts \cup {None}
<1>1. x.uid \in Uids /\ x.spec \in BuildkitBuilderSpec
      /\ x.lastUsed \in 0..MaxStamps \cup {None}
  BY DEF Builder
<1>2. /\ x.spec.mode \in {"persistent", "sleepy"}
      /\ x.spec.replicas \in Nat
      /\ x.spec.labels \in LabelSets
      /\ x.spec.exposure \in ExposureConfig \cup {None}
  BY <1>1 DEF BuildkitBuilderSpec
<1> QED
  BY <1>1, <1>2 DEF exposureEnabled, ExposureConfig

\* labelsForBuilder returns labels.
LEMMA LabelsType ==
  ASSUME NEW x \in Builder
  PROVE  labelsForBuilder(x) \in Labels
BY BuilderFields DEF labelsForBuilder, Labels

\* serviceForBuilder never yields the value that stands for "absent".
LEMMA WrittenServices ==
  ASSUME NEW x \in Builder
  PROVE  serviceForBuilder(x) \in ServiceObject /\ serviceForBuilder(x) # None
BY LabelsType, NotFoundAssumption DEF serviceForBuilder, ServiceObject

\* What ensureBuildkitdConfigMap, createOrUpdatePVC, createOrUpdateStatefulSet
\* and, with a host, the TLS and routing calls write is of its kind.
LEMMA WrittenObjects ==
  ASSUME NEW x \in Builder, NEW t \in BuildkitBuilderTemplateSpec,
         NEW owner \in Uids, NEW n \in Nat
  PROVE  /\ buildkitdConfigMap(owner, x, t) \in ConfigMapObject(Uids)
         /\ pvcForBuilder(x) \in PVCObject(Uids)
         /\ statefulSetForBuilder(x, t, n) \in StatefulSetObject(Uids)
         /\ exposureEnabled(x.spec) /\ x.spec.exposure.host # None =>
              /\ serverCert(owner, x) \in HostObject(Uids)
              /\ ingressRouteForBuilder(x) \in HostObject(Uids)
<1>1. buildkitdConfigMap(owner, x, t) \in ConfigMapObject(Uids)
  <2>1. t.set["buildkitdToml"] \in Settings \cup {None}
    BY SettingsAssumption DEF BuildkitBuilderTemplateSpec
  <2> QED BY <2>1, BuilderFields DEF buildkitdConfigMap, ConfigMapObject
<1>2. pvcForBuilder(x) \in PVCObject(Uids)
  BY BuilderFields DEF pvcForBuilder, PVCObject
<1>3. statefulSetForBuilder(x, t, n) \in StatefulSetObject(Uids)
  <2>1. buildPodSpec(x, t) \in PodSpec
    BY BuilderFields
    DEF buildPodSpec, PodSpec, UsesPVC, BuildkitBuilderTemplateSpec
  <2> QED BY <2>1, LabelsType, BuilderFields DEF statefulSetForBuilder, StatefulSetObject
<1>4. ASSUME exposureEnabled(x.spec), x.spec.exposure.host # None
      PROVE  /\ serverCert(owner, x) \in HostObject(Uids)
             /\ ingressRouteForBuilder(x) \in HostObject(Uids)
  <2>1. x.spec.exposure.host \in Hosts
    BY <1>4, BuilderFields
  <2> QED BY <2>1, BuilderFields DEF serverCert, ingressRouteForBuilder, HostObject
<1> QED
  BY <1>1, <1>2, <1>3, <1>4

\* The scale reconcileSleepy or reconcilePersistent decides on is a number.
LEMMA DesiredReplicasType ==
  ASSUME NEW x \in Builder
  PROVE  desiredReplicas(x) \in Nat
BY BuilderFields DEF desiredReplicas

-----------------------------------------------------------------------------
(* The outcomes of one API call.                                           *)

\* What a step may not do to the Services and the StatefulSet.
KeepsServices(new) ==
  /\ \A s \in Services : api[s] # None => new[s] # None
  /\ new["sts"] # None =>
       api["sts"] # None \/ (new["hsvc"] # None /\ new["csvc"] # None)

\* A step with KeepsServices keeps ServicesBeforeStatefulSet.
LEMMA ServicesKept ==
  ASSUME ServicesBeforeStatefulSet, KeepsServices(api')
  PROVE  ServicesBeforeStatefulSet'
BY DEF ServicesBeforeStatefulSet, KeepsServices, Services

\* Reconcile returns: the worker forgets its copy and is at no call.
LEMMA ReturnKeeps ==
  ASSUME IInv, NEW again \in BOOLEAN, Return(again),
         ClusterTypeOK', CachesAgree', EnvironmentTypeOK', KeepsServices(api')
  PROVE  IInv'
<1>1. WorkerTypeOK' /\ CopyIsCurrent' /\ ExposureChecked' /\ ServicesWritten'
  BY DEF IInv, TypeOK, WorkerTypeOK, CopyIsCurrent, ExposureChecked,
         ServicesWritten, Return, Calls
<1>2. ServicesBeforeStatefulSet'
  BY ServicesKept DEF IInv
<1> QED
  BY <1>1, <1>2 DEF IInv, TypeOK

\* What the worker must have done before it goes on to the call `next`.
MayGoOnTo(next, new) ==
  /\ next \in {"ca", "secret", "route"} => exposureEnabled(b.spec)
  /\ next \in {"secret", "route"} => b.spec.exposure.host # None
  /\ next \in Calls \ {"finalize", "cm", "hsvc"} => new["hsvc"] # None
  /\ next \in Calls \ {"finalize", "cm", "hsvc", "csvc"} => new["csvc"] # None

\* The worker goes on to its next call.
LEMMA ContinueKeeps ==
  ASSUME IInv, pc # "idle", NEW next \in Calls, Continue(next),
         ClusterTypeOK', CachesAgree', EnvironmentTypeOK', KeepsServices(api'),
         api'["builder"] = api["builder"], MayGoOnTo(next, api')
  PROVE  IInv'
<1>1. WorkerTypeOK' /\ CopyIsCurrent'
  BY DEF IInv, TypeOK, WorkerTypeOK, CopyIsCurrent, Continue, Calls
<1>2. ExposureChecked' /\ ServicesWritten'
  BY DEF ExposureChecked, ServicesWritten, MayGoOnTo, Continue
<1>3. ServicesBeforeStatefulSet'
  BY ServicesKept DEF IInv
<1> QED
  BY <1>1, <1>2, <1>3 DEF IInv, TypeOK

\* The API server refuses a write, or the code returns an error before it.
LEMMA RefusedKeeps ==
  ASSUME IInv, Refused
  PROVE  IInv'
<1>1. ClusterTypeOK' /\ CachesAgree' /\ EnvironmentTypeOK' /\ KeepsServices(api')
  BY DEF IInv, TypeOK, ClusterTypeOK, CachesAgree, EnvironmentTypeOK,
         KeepsServices, Refused, environment
<1> QED
  BY <1>1, ReturnKeeps DEF Refused

\* There is nothing to write: the worker goes on.
LEMMA SkipKeeps ==
  ASSUME IInv, pc # "idle", NEW next \in Calls, Skip(next), MayGoOnTo(next, api)
  PROVE  IInv'
<1>1. ClusterTypeOK' /\ CachesAgree' /\ EnvironmentTypeOK' /\ KeepsServices(api')
  BY DEF IInv, TypeOK, ClusterTypeOK, CachesAgree, EnvironmentTypeOK,
         KeepsServices, Skip, environment
<1>2. api' = api /\ Continue(next)
  BY DEF Skip
<1>3. MayGoOnTo(next, api')
  BY <1>2
<1> QED
  BY <1>1, <1>2, <1>3, ContinueKeeps

\* A failed call, applied or not.
LEMMA CallFailsKeeps ==
  ASSUME IInv, NEW new, NEW bumped, bumped \subseteq Names, DOMAIN new = Names,
         \A n \in Names : new[n] \in Object(n), KeepsServices(new),
         CallFails(new, bumped)
  PROVE  IInv'
<1>1. ClusterTypeOK /\ CachesAgree
  BY DEF IInv, TypeOK
<1>2. EnvironmentTypeOK' /\ Return(TRUE)
  <2>1. /\ faults < MaxFaults /\ faults' = faults + 1
        /\ UNCHANGED <<uids, edits, stamps, expired, building>>
    BY DEF CallFails
  <2>2. EnvironmentTypeOK
    BY DEF IInv, TypeOK
  <2>3. EnvironmentTypeOK'
    BY <2>1, <2>2, Bounds DEF EnvironmentTypeOK
  <2> QED BY <2>3 DEF CallFails
<1>3. KeepsServices(api)
  BY DEF KeepsServices
<1>4. CASE Store(new, bumped)
  <2>1. ClusterTypeOK' /\ CachesAgree' /\ api' = new
    BY <1>1, <1>4, StoreKeepsTypes
  <2>2. KeepsServices(api')
    BY <2>1
  <2> QED BY <1>2, <2>1, <2>2, ReturnKeeps
<1>5. CASE Store(api, {})
  <2>1. DOMAIN api = Names /\ \A n \in Names : api[n] \in Object(n)
    BY <1>1 DEF ClusterTypeOK
  <2>2. ClusterTypeOK' /\ CachesAgree' /\ api' = api
    BY <1>1, <1>5, <2>1, StoreKeepsTypes
  <2>3. KeepsServices(api')
    BY <1>3, <2>2
  <2> QED BY <1>2, <2>2, <2>3, ReturnKeeps
<1> QED
  BY <1>4, <1>5 DEF CallFails

\* A call on a child object, and what follows it.
LEMMA CallKeeps ==
  ASSUME IInv, pc # "idle",
         NEW k \in Names \ {"builder"}, NEW object \in Object(k),
         NEW next \in Calls,
         KeepsServices(With(k, object)), MayGoOnTo(next, With(k, object)),
         Call(With(k, object), next)
  PROVE  IInv'
<1> DEFINE new == With(k, object)
<1>1. ClusterTypeOK /\ CachesAgree
  BY DEF IInv, TypeOK
<1>2. /\ DOMAIN new = Names /\ \A n \in Names : new[n] \in Object(n)
      /\ new["builder"] = api["builder"]
  <2>1. "builder" \in Names
    BY DEF Names
  <2> QED BY <1>1, <2>1, WithIsTyped
<1> HIDE DEF new
<1>3. CASE CallSucceeds(new, {}) /\ Continue(next)
  <2>1. Store(new, {}) /\ Continue(next)
    BY <1>3 DEF CallSucceeds
  <2>2. ClusterTypeOK' /\ CachesAgree' /\ api' = new
    BY <1>1, <1>2, <2>1, StoreKeepsTypes
  <2>3. EnvironmentTypeOK'
    BY <1>3 DEF IInv, TypeOK, EnvironmentTypeOK, CallSucceeds, environment
  <2>4. KeepsServices(api') /\ MayGoOnTo(next, api') /\ api'["builder"] = api["builder"]
    BY <1>2, <2>2 DEF new
  <2> QED BY <2>1, <2>2, <2>3, <2>4, ContinueKeeps
<1>4. CASE CallFails(new, {})
  <2>1. KeepsServices(new)
    BY DEF new
  <2> QED BY <1>2, <1>4, <2>1, CallFailsKeeps
<1> QED
  BY <1>3, <1>4 DEF Call, new

\* A step of the users or of the cluster that writes to the API server.
LEMMA StoreByOthersKeeps ==
  ASSUME IInv, NEW new, NEW bumped, bumped \subseteq Names, DOMAIN new = Names,
         \A n \in Names : new[n] \in Object(n), KeepsServices(new),
         StoreByOthers(new, bumped), UNCHANGED worker, EnvironmentTypeOK',
         \A s \in Services : new[s] = api[s]
  PROVE  IInv'
<1>1. ClusterTypeOK /\ CachesAgree /\ Store(new, bumped)
  BY DEF IInv, TypeOK, StoreByOthers
<1>2. ClusterTypeOK' /\ CachesAgree' /\ api' = new
  BY <1>1, StoreKeepsTypes
<1>3. KeepsServices(api')
  BY <1>2
<1>4. UNCHANGED <<pc, b, spec, desired, delayed>>
  BY DEF StoreByOthers, worker
<1>5. /\ inhand' = "current" => inhand = "current" /\ new["builder"] = api["builder"]
      /\ inhand = "none" => inhand' = "none"
      /\ inhand # "none" => inhand' \in {inhand, "outdated"}
  BY DEF StoreByOthers
<1>6. WorkerTypeOK'
  BY <1>4, <1>5 DEF IInv, TypeOK, WorkerTypeOK
<1>7. CopyIsCurrent'
  BY <1>2, <1>4, <1>5 DEF IInv, CopyIsCurrent
<1>8. ExposureChecked' /\ ServicesWritten'
  BY <1>2, <1>4 DEF IInv, ExposureChecked, ServicesWritten, Services
<1>9. ServicesBeforeStatefulSet'
  BY <1>3, ServicesKept DEF IInv
<1> QED
  BY <1>2, <1>6, <1>7, <1>8, <1>9 DEF IInv, TypeOK

-----------------------------------------------------------------------------
(* The steps of Reconcile.                                                 *)

\* Writing a Service, or anything that is neither a Service nor the
\* StatefulSet, leaves the Services in place.
LEMMA WithKeepsServices ==
  ASSUME IInv, NEW k \in Names \ {"sts"}, NEW object \in Object(k),
         k \in Services => object # None
  PROVE  /\ KeepsServices(With(k, object))
         /\ api["hsvc"] # None => With(k, object)["hsvc"] # None
         /\ api["csvc"] # None => With(k, object)["csvc"] # None
         /\ With(k, object)[k] = object
<1>1. ClusterTypeOK
  BY DEF IInv, TypeOK
<1>2. "hsvc" \in Names /\ "csvc" \in Names /\ "sts" \in Names
  BY DEF Names, Children, Owned, Services
<1>3. /\ With(k, object)[k] = object
      /\ \A n \in Names \ {k} : With(k, object)[n] = api[n]
  BY <1>1, WithIsTyped
<1>4. \A s \in Services : api[s] # None => With(k, object)[s] # None
  BY <1>2, <1>3 DEF Services
<1> QED
  BY <1>2, <1>3, <1>4 DEF KeepsServices, Services

\* CreateOrUpdate of a child either makes the call or is refused.
LEMMA CreateOrUpdateKeeps ==
  ASSUME IInv, pc # "idle",
         NEW k \in Names \ {"builder"}, NEW object \in Object(k),
         NEW next \in Calls,
         KeepsServices(With(k, object)), MayGoOnTo(next, With(k, object)),
         CreateOrUpdate(k, object, next)
  PROVE  IInv'
BY CallKeeps, RefusedKeeps DEF CreateOrUpdate

\* What the worker holds while it is at a call.
LEMMA AtACall ==
  ASSUME IInv, pc # "idle"
  PROVE  /\ b \in Builder /\ spec \in BuildkitBuilderTemplateSpec
         /\ \A n \in Names : api[n] \in Object(n) /\ seen[n] \in Object(n)
         /\ {"cm", "hsvc", "csvc", "secret", "route", "ca", "pvc"} \subseteq Names \ {"builder", "sts"}
         /\ AfterExposure \in {"pvc", "sts"}
BY DEF IInv, TypeOK, WorkerTypeOK, ClusterTypeOK, Names, Children, Owned, Services,
       AfterExposure

\* Reconcile reads the builder and its template and resolves the spec.
LEMMA BeginReconcileKeeps == IInv /\ BeginReconcile => IInv'
<1> SUFFICES ASSUME IInv, BeginReconcile PROVE IInv'
  OBVIOUS
<1> DEFINE builder == seen["builder"]
<1>1. /\ "builder" \in Names /\ "template" \in Names
      /\ builder \in Builder \cup {None}
      /\ seen["template"] \in BuildkitBuilderTemplateSpec \cup {None}
  BY ObjectKinds DEF Names, IInv, TypeOK, ClusterTypeOK
<1>2. /\ pc = "idle" /\ queued' = FALSE
      /\ UNCHANGED <<api, seen, lag, environment>>
  BY DEF BeginReconcile
<1>3. ClusterTypeOK' /\ CachesAgree' /\ EnvironmentTypeOK' /\ KeepsServices(api')
  BY <1>2 DEF IInv, TypeOK, ClusterTypeOK, CachesAgree, EnvironmentTypeOK,
              KeepsServices, environment
<1>4. CASE \E again \in BOOLEAN : Return(again)
  BY <1>3, <1>4, ReturnKeeps
<1>5. CASE /\ builder # None
           /\ ~Unresolvable(builder.spec, seen["template"])
           /\ pc' = IF builder.deleting THEN "finalize" ELSE "cm"
           /\ b' = builder
           /\ spec' = resolveSpec(builder.spec, seen["template"])
           /\ inhand' = IF "builder" \in lag THEN "outdated" ELSE "current"
           /\ UNCHANGED <<desired, delayed>>
  <2>1. builder \in Builder /\ builder.spec \in BuildkitBuilderSpec
    BY <1>1, <1>5, BuilderFields
  <2>2. spec' \in BuildkitBuilderTemplateSpec
    BY <1>1, <1>5, <2>1, ResolvedType
  <2>3. pc' \in {"finalize", "cm"}
    BY <1>5
  <2>4. WorkerTypeOK'
    BY <1>5, <2>1, <2>2, <2>3 DEF IInv, TypeOK, WorkerTypeOK, Calls
  <2>5. CopyIsCurrent'
    BY <1>1, <1>2, <1>5, <2>3 DEF CopyIsCurrent, IInv, CachesAgree
  <2>6. ExposureChecked' /\ ServicesWritten'
    BY <2>3 DEF ExposureChecked, ServicesWritten
  <2>7. ServicesBeforeStatefulSet'
    BY <1>3, ServicesKept DEF IInv
  <2> QED
    BY <1>3, <2>4, <2>5, <2>6, <2>7 DEF IInv, TypeOK
<1> QED
  BY <1>4, <1>5 DEF BeginReconcile

\* reconcileDelete removes the finalizer, and with it the builder.
LEMMA reconcileDeleteKeeps == IInv /\ reconcileDelete => IInv'
<1> SUFFICES ASSUME IInv, reconcileDelete PROVE IInv'
  OBVIOUS
<1> DEFINE new == With("builder", None)
<1>1. /\ DOMAIN new = Names /\ \A n \in Names : new[n] \in Object(n)
      /\ KeepsServices(new)
  <2>1. /\ "builder" \in Names \ {"sts"} /\ "builder" \notin Services
        /\ None \in Object("builder")
    BY ObjectKinds DEF Names, Services
  <2> QED BY <2>1, WithIsTyped, WithKeepsServices DEF IInv, TypeOK
<1> HIDE DEF new
<1>2. CASE CallSucceeds(new, {}) /\ Return(FALSE)
  <2>1. ClusterTypeOK' /\ CachesAgree' /\ api' = new
    BY <1>1, <1>2, StoreKeepsTypes DEF IInv, TypeOK, CallSucceeds
  <2>2. EnvironmentTypeOK'
    BY <1>2 DEF IInv, TypeOK, EnvironmentTypeOK, CallSucceeds, environment
  <2>3. KeepsServices(api')
    BY <1>1, <2>1
  <2> QED BY <1>2, <2>1, <2>2, <2>3, ReturnKeeps
<1>3. CASE CallFails(new, {})
  BY <1>1, <1>3, CallFailsKeeps
<1>4. CASE Refused
  BY <1>4, RefusedKeeps
<1> QED
  BY <1>2, <1>3, <1>4 DEF reconcileDelete, new

\* ensureBuildkitdConfigMap keeps the owner of an existing ConfigMap.
LEMMA ensureBuildkitdConfigMapKeeps == IInv /\ ensureBuildkitdConfigMap => IInv'
<1> SUFFICES ASSUME IInv, ensureBuildkitdConfigMap PROVE IInv'
  OBVIOUS
<1> DEFINE owner == IF seen["cm"] = None THEN b.uid ELSE seen["cm"].owner
           object == buildkitdConfigMap(owner, b, spec)
<1>1. pc = "cm" /\ CreateOrUpdate("cm", object, "hsvc")
  BY DEF ensureBuildkitdConfigMap
<1>2. "cm" \in Names \ {"builder", "sts"} /\ "cm" \notin Services
  BY <1>1, AtACall DEF Services
<1>3. object \in Object("cm")
  <2>1. seen["cm"] \in ConfigMapObject(Uids) \cup {None}
    BY <1>1, <1>2, AtACall, ObjectKinds
  <2>2. owner \in Uids
    BY <1>1, <2>1, AtACall, BuilderFields DEF ConfigMapObject
  <2> QED BY <1>1, <2>2, AtACall, WrittenObjects, ObjectKinds
<1> HIDE DEF object
<1>4. KeepsServices(With("cm", object)) /\ MayGoOnTo("hsvc", With("cm", object))
  BY <1>2, <1>3, WithKeepsServices DEF MayGoOnTo
<1> QED
  BY <1>1, <1>2, <1>3, <1>4, CreateOrUpdateKeeps DEF Calls

\* Past createOrUpdateService the headless Service exists.
LEMMA createHeadlessServiceKeeps == IInv /\ createHeadlessService => IInv'
<1> SUFFICES ASSUME IInv, createHeadlessService PROVE IInv'
  OBVIOUS
<1> DEFINE object == serviceForBuilder(b)
<1>1. pc = "hsvc" /\ CreateOrUpdate("hsvc", object, "csvc")
  BY DEF createHeadlessService
<1>2. /\ "hsvc" \in Names \ {"builder", "sts"}
      /\ object \in Object("hsvc") /\ object # None
  BY <1>1, AtACall, WrittenServices, ObjectKinds
<1> HIDE DEF object
<1>3. KeepsServices(With("hsvc", object)) /\ MayGoOnTo("csvc", With("hsvc", object))
  BY <1>2, WithKeepsServices DEF MayGoOnTo
<1> QED
  BY <1>1, <1>2, <1>3, CreateOrUpdateKeeps DEF Calls

\* Past createOrUpdateService both Services exist, and the next call depends
\* on exposureEnabled.
LEMMA createNodePortServiceKeeps == IInv /\ createNodePortService => IInv'
<1> SUFFICES ASSUME IInv, createNodePortService PROVE IInv'
  OBVIOUS
<1> DEFINE object == serviceForBuilder(b)
           next == IF exposureEnabled(b.spec) THEN "ca" ELSE "delroute"
<1>1. pc = "csvc" /\ CreateOrUpdate("csvc", object, next)
  BY DEF createNodePortService
<1>2. /\ "csvc" \in Names \ {"builder", "sts"}
      /\ object \in Object("csvc") /\ object # None
  BY <1>1, AtACall, WrittenServices, ObjectKinds
<1>3. api["hsvc"] # None
  BY <1>1 DEF IInv, ServicesWritten, Calls
<1>4. next \in {"ca", "delroute"} /\ (next = "ca" => exposureEnabled(b.spec))
  OBVIOUS
<1> HIDE DEF object, next
<1>5. KeepsServices(With("csvc", object)) /\ MayGoOnTo(next, With("csvc", object))
  BY <1>2, <1>3, <1>4, WithKeepsServices DEF MayGoOnTo
<1> QED
  BY <1>1, <1>2, <1>4, <1>5, CreateOrUpdateKeeps DEF Calls

\* Past the Services, a call on another child keeps what has been written.
LEMMA LaterCall ==
  ASSUME IInv, pc \in Calls \ {"finalize", "cm", "hsvc", "csvc"},
         NEW k \in {"secret", "route", "ca", "pvc"}, NEW object \in Object(k),
         NEW next \in Calls,
         next \in {"ca", "secret", "route"} => exposureEnabled(b.spec),
         next \in {"secret", "route"} => b.spec.exposure.host # None
  PROVE  /\ pc # "idle" /\ k \in Names \ {"builder"}
         /\ KeepsServices(With(k, object))
         /\ MayGoOnTo(next, With(k, object))
         /\ MayGoOnTo(next, api)
<1>1. pc # "idle" /\ k \notin Services
  BY DEF Calls, Services
<1>2. k \in Names \ {"builder", "sts"}
  BY <1>1, AtACall
<1>3. api["hsvc"] # None /\ api["csvc"] # None
  BY DEF IInv, ServicesWritten, Calls
<1> QED
  BY <1>1, <1>2, <1>3, WithKeepsServices DEF MayGoOnTo

\* reconcileExposure of a builder that is not exposed deletes two children.
LEMMA deleteCallsKeep ==
  IInv /\ (deleteIngressRouteIfExists \/ deleteBuilderServerCert) => IInv'
<1>1. ASSUME IInv, deleteIngressRouteIfExists PROVE IInv'
  <2>1. pc = "delroute" /\ Call(With("route", None), "delsecret")
    BY <1>1 DEF deleteIngressRouteIfExists
  <2>2. None \in Object("route")
    BY ObjectKinds
  <2> QED BY <1>1, <2>1, <2>2, LaterCall, CallKeeps DEF Calls
<1>2. ASSUME IInv, deleteBuilderServerCert PROVE IInv'
  <2>1. pc = "delsecret" /\ Call(With("secret", None), AfterExposure)
    BY <1>2 DEF deleteBuilderServerCert
  <2>2. None \in Object("secret")
    BY ObjectKinds
  <2>3. AfterExposure \in {"pvc", "sts"}
    BY <1>2, <2>1, AtACall
  <2> QED BY <1>2, <2>1, <2>2, <2>3, LaterCall, CallKeeps DEF Calls
<1> QED BY <1>1, <1>2

\* ensureNamespaceCA, only called for an exposed builder, finds, creates or
\* re-reads the CA once a host is known.
LEMMA ensureNamespaceCAKeeps == IInv /\ ensureNamespaceCA => IInv'
<1> SUFFICES ASSUME IInv, ensureNamespaceCA PROVE IInv'
  OBVIOUS
<1>1. pc = "ca" /\ exposureEnabled(b.spec) /\ namespaceCA \in Object("ca")
  BY ObjectKinds DEF ensureNamespaceCA, IInv, ExposureChecked
<1>2. CASE Refused
  BY <1>2, RefusedKeeps
<1>3. CASE b.spec.exposure.host # None /\ Skip("secret")
  BY <1>1, <1>3, LaterCall, SkipKeeps DEF Calls
<1>4. CASE b.spec.exposure.host # None /\ Call(With("ca", namespaceCA), "secret")
  BY <1>1, <1>4, LaterCall, CallKeeps DEF Calls
<1>5. CASE /\ b.spec.exposure.host # None
           /\ seen' = [seen EXCEPT !["ca"] = api["ca"]]
           /\ lag' = lag \ {"ca"}
           /\ Continue("secret")
           /\ UNCHANGED <<api, queued, environment>>
  <2>1. ClusterTypeOK' /\ CachesAgree'
    BY <1>5 DEF IInv, TypeOK, ClusterTypeOK, CachesAgree
  <2>2. EnvironmentTypeOK' /\ KeepsServices(api')
    BY <1>5 DEF IInv, TypeOK, EnvironmentTypeOK, KeepsServices, environment
  <2>3. MayGoOnTo("secret", api) /\ api' = api
    BY <1>1, <1>5, LaterCall DEF Calls
  <2>4. MayGoOnTo("secret", api')
    BY <2>3
  <2> QED BY <1>1, <1>5, <2>1, <2>2, <2>3, <2>4, ContinueKeeps DEF Calls
<1> QED
  BY <1>2, <1>3, <1>4, <1>5 DEF ensureNamespaceCA

\* ensureBuilderServerCert writes a certificate for the builder's host, under
\* the owner the Secret already has.
LEMMA ensureBuilderServerCertKeeps == IInv /\ ensureBuilderServerCert => IInv'
<1> SUFFICES ASSUME IInv, ensureBuilderServerCert PROVE IInv'
  OBVIOUS
<1>1. /\ pc = "secret" /\ exposureEnabled(b.spec)
      /\ b.spec.exposure.host # None
  BY DEF ensureBuilderServerCert, IInv, ExposureChecked
<1>2. ASSUME NEW owner \in Uids
      PROVE  serverCert(owner, b) \in Object("secret")
  <2>1. b \in Builder /\ spec \in BuildkitBuilderTemplateSpec
    BY <1>1, AtACall
  <2> QED BY <1>1, <2>1, WrittenObjects, ObjectKinds
<1>3. /\ b.uid \in Uids
      /\ seen["secret"] # None => seen["secret"].owner \in Uids
  <2>1. seen["secret"] \in HostObject(Uids) \cup {None}
    BY <1>1, AtACall, ObjectKinds
  <2> QED BY <1>1, <2>1, AtACall, BuilderFields DEF HostObject
<1>4. CASE Skip("route")
  BY <1>1, <1>4, LaterCall, SkipKeeps, <1>2, <1>3 DEF Calls
<1>5. CASE Call(With("secret", serverCert(b.uid, b)), "route")
  BY <1>1, <1>2, <1>3, <1>5, LaterCall, CallKeeps DEF Calls
<1>6. CASE /\ seen["secret"] # None
           /\ CreateOrUpdate("secret", serverCert(seen["secret"].owner, b), "route")
  BY <1>1, <1>2, <1>3, <1>6, LaterCall, CreateOrUpdateKeeps DEF Calls
<1> QED
  BY <1>4, <1>5, <1>6 DEF ensureBuilderServerCert

\* createOrUpdateIngressRoute writes a route to the builder's host.
LEMMA createOrUpdateIngressRouteKeeps == IInv /\ createOrUpdateIngressRoute => IInv'
<1> SUFFICES ASSUME IInv, createOrUpdateIngressRoute PROVE IInv'
  OBVIOUS
<1>1. /\ pc = "route" /\ exposureEnabled(b.spec) /\ b.spec.exposure.host # None
      /\ Call(With("route", ingressRouteForBuilder(b)), AfterExposure)
  BY DEF createOrUpdateIngressRoute, IInv, ExposureChecked
<1>2. ingressRouteForBuilder(b) \in Object("route")
  <2>1. b \in Builder /\ b.uid \in Uids /\ spec \in BuildkitBuilderTemplateSpec
    BY <1>1, AtACall, BuilderFields
  <2> QED BY <1>1, <2>1, WrittenObjects, ObjectKinds
<1>3. AfterExposure \in {"pvc", "sts"}
  BY <1>1, AtACall
<1> QED
  BY <1>1, <1>2, <1>3, LaterCall, CallKeeps DEF Calls

\* createOrUpdatePVC leaves an existing PVC alone.
LEMMA createOrUpdatePVCKeeps == IInv /\ createOrUpdatePVC => IInv'
<1> SUFFICES ASSUME IInv, createOrUpdatePVC PROVE IInv'
  OBVIOUS
<1>1. pc = "pvc"
  BY DEF createOrUpdatePVC
<1>2. pvcForBuilder(b) \in Object("pvc")
  <2>1. b \in Builder /\ b.uid \in Uids /\ spec \in BuildkitBuilderTemplateSpec
    BY <1>1, AtACall, BuilderFields
  <2> QED BY <2>1, WrittenObjects, ObjectKinds
<1>3. CASE Skip("sts")
  BY <1>1, <1>2, <1>3, LaterCall, SkipKeeps DEF Calls
<1>4. CASE CreateOrUpdate("pvc", pvcForBuilder(b), "sts")
  BY <1>1, <1>2, <1>4, LaterCall, CreateOrUpdateKeeps DEF Calls
<1> QED
  BY <1>3, <1>4 DEF createOrUpdatePVC

\* createOrUpdateStatefulSet comes after both Services: the only write that
\* ServicesBeforeStatefulSet constrains.
LEMMA createOrUpdateStatefulSetKeeps == IInv /\ createOrUpdateStatefulSet => IInv'
<1> SUFFICES ASSUME IInv, createOrUpdateStatefulSet PROVE IInv'
  OBVIOUS
<1> DEFINE n == desiredReplicas(b)
           sts == statefulSetForBuilder(b, spec, n)
           new == With("sts", sts)
<1>1. pc = "sts" /\ pc # "idle" /\ b \in Builder /\ n \in Nat
  BY AtACall, DesiredReplicasType DEF createOrUpdateStatefulSet
<1>2. ClusterTypeOK /\ CachesAgree /\ EnvironmentTypeOK /\ WorkerTypeOK
  BY DEF IInv, TypeOK
<1>3. sts \in Object("sts")
  <2>1. b.uid \in Uids /\ spec \in BuildkitBuilderTemplateSpec
    BY <1>1, AtACall, BuilderFields
  <2> QED BY <1>1, <2>1, WrittenObjects, ObjectKinds
<1>4. api["hsvc"] # None /\ api["csvc"] # None
  BY <1>1 DEF IInv, ServicesWritten, Calls
<1> HIDE DEF n, sts
<1>5. /\ DOMAIN new = Names /\ \A m \in Names : new[m] \in Object(m)
      /\ new["hsvc"] = api["hsvc"] /\ new["csvc"] = api["csvc"]
      /\ new["builder"] = api["builder"]
  <2>1. /\ "sts" \in Names /\ {"hsvc", "csvc", "builder"} \subseteq Names \ {"sts"}
    BY DEF Names, Children, Owned, Services
  <2> QED BY <1>2, <1>3, <2>1, WithIsTyped
<1> HIDE DEF new
<1>6. KeepsServices(new)
  BY <1>4, <1>5 DEF KeepsServices, Services
<1>7. CASE /\ CallSucceeds(new, {})
           /\ pc' = "status" /\ desired' = n
           /\ UNCHANGED <<b, spec, inhand, delayed>>
  <2>1. ClusterTypeOK' /\ CachesAgree' /\ api' = new
    BY <1>2, <1>5, <1>7, StoreKeepsTypes DEF CallSucceeds
  <2>2. EnvironmentTypeOK'
    BY <1>2, <1>7 DEF EnvironmentTypeOK, CallSucceeds, environment
  <2>3. WorkerTypeOK'
    BY <1>1, <1>2, <1>7 DEF WorkerTypeOK, Calls
  <2>4. CopyIsCurrent'
    BY <1>5, <1>7, <2>1 DEF IInv, CopyIsCurrent
  <2>5. ExposureChecked' /\ ServicesWritten' /\ ServicesBeforeStatefulSet'
    BY <1>4, <1>5, <1>7, <2>1 DEF ExposureChecked, ServicesWritten, ServicesBeforeStatefulSet
  <2> QED BY <2>1, <2>2, <2>3, <2>4, <2>5 DEF IInv, TypeOK
<1>8. CASE CallFails(new, {})
  BY <1>5, <1>6, <1>8, CallFailsKeeps
<1>9. CASE Refused
  BY <1>9, RefusedKeeps
<1> QED
  BY <1>7, <1>8, <1>9 DEF createOrUpdateStatefulSet, new, sts, n

\* Writing the builder itself, by whomever, leaves the children alone.
LEMMA WithBuilder ==
  ASSUME IInv, NEW x \in Builder \cup {None}
  PROVE  /\ DOMAIN With("builder", x) = Names
         /\ \A n \in Names : With("builder", x)[n] \in Object(n)
         /\ KeepsServices(With("builder", x))
         /\ \A s \in Services : With("builder", x)[s] = api[s]
<1>1. /\ "builder" \in Names \ {"sts"} /\ "builder" \notin Services
      /\ x \in Object("builder") /\ Services \subseteq Names \ {"builder"}
  BY ObjectKinds DEF Names, Children, Services
<1>2. ClusterTypeOK
  BY DEF IInv, TypeOK
<1> QED
  BY <1>1, <1>2, WithIsTyped, WithKeepsServices

\* A status is written into the builder the worker holds, or refused.
LEMMA updateStatusKeeps ==
  ASSUME IInv, pc = "status", NEW status \in Status, NEW again \in BOOLEAN,
         updateStatus(status, again)
  PROVE  IInv'
<1> DEFINE written == [api["builder"] EXCEPT !.status = status]
           new == With("builder", written)
<1>1. CASE Refused
  BY <1>1, RefusedKeeps
<1>2. ASSUME StatusAccepted, NEW bumped \in {{}, {"builder"}},
             \/ CallSucceeds(new, bumped) /\ Return(again)
             \/ CallFails(new, bumped)
      PROVE  IInv'
  <2>1. api["builder"] = b /\ b \in Builder
    BY <1>2, AtACall DEF StatusAccepted, IInv, CopyIsCurrent
  <2>2. written \in Builder
    BY <2>1 DEF Builder
  <2> HIDE DEF written
  <2>3. /\ DOMAIN new = Names /\ \A n \in Names : new[n] \in Object(n)
        /\ KeepsServices(new)
    BY <2>2, WithBuilder
  <2>4. bumped \subseteq Names
    BY <1>2 DEF Names
  <2> HIDE DEF new
  <2>5. CASE CallSucceeds(new, bumped) /\ Return(again)
    <3>1. ClusterTypeOK' /\ CachesAgree' /\ api' = new
      BY <2>3, <2>4, <2>5, StoreKeepsTypes DEF IInv, TypeOK, CallSucceeds
    <3>2. EnvironmentTypeOK'
      BY <2>5 DEF IInv, TypeOK, EnvironmentTypeOK, CallSucceeds, environment
    <3>3. KeepsServices(api')
      BY <2>3, <3>1
    <3> QED BY <2>5, <3>1, <3>2, <3>3, ReturnKeeps
  <2>6. CASE CallFails(new, bumped)
    BY <2>3, <2>4, <2>6, CallFailsKeeps
  <2> QED BY <1>2, <2>5, <2>6
<1> QED
  BY <1>1, <1>2 DEF updateStatus

\* What updateStatus reports is a status.
LEMMA statusOfType ==
  ASSUME IInv, pc = "status", NEW phase \in {"Ready", "ScalingDown"},
         NEW endpoint \in IPs \cup {None}, NEW ready \in Nat
  PROVE  statusOf(phase, endpoint, ready) \in Status
<1>1. b \in Builder /\ desired \in Nat
  BY AtACall DEF IInv, TypeOK, WorkerTypeOK
<1>2. externalEndpointForBuilder(b) \in Hosts \cup {None}
  BY <1>1, BuilderFields DEF externalEndpointForBuilder
<1>3. exposureEnabled(b.spec) \in BOOLEAN
  BY <1>1 DEF Builder, BuildkitBuilderSpec, ExposureConfig, exposureEnabled
<1> QED
  BY <1>1, <1>2, <1>3 DEF statusOf, Status, resolveNodePort

\* The cached pod list is a finite set of addresses.
LEMMA PodsSeen ==
  ASSUME IInv
  PROVE  seen["pods"] \subseteq IPs /\ Cardinality(seen["pods"]) \in Nat
<1>1. seen["pods"] \subseteq IPs
  BY ObjectKinds DEF IInv, TypeOK, ClusterTypeOK, Names
<1> QED
  BY <1>1, ControllerAssumption, FS_Subset, FS_CardinalityType

\* resolveStatefulSetEndpoint returns the address of a pod, or none.
LEMMA EndpointSeen ==
  ASSUME IInv, NEW ip \in resolveStatefulSetEndpoint
  PROVE  ip \in IPs \cup {None}
BY PodsSeen DEF resolveStatefulSetEndpoint

\* The last call of reconcilePersistent and reconcileSleepy.
LEMMA publishKeeps == IInv /\ (publishPersistent \/ publishSleepy) => IInv'
<1>1. ASSUME IInv, pc = "status", NEW again \in BOOLEAN,
             NEW ip \in resolveStatefulSetEndpoint,
             updateStatus(statusOf("Ready", ip, Cardinality(seen["pods"])), again)
      PROVE  IInv'
  <2>1. ip \in IPs \cup {None} /\ Cardinality(seen["pods"]) \in Nat
    BY <1>1, EndpointSeen, PodsSeen
  <2>2. statusOf("Ready", ip, Cardinality(seen["pods"])) \in Status
    BY <1>1, <2>1, statusOfType
  <2> QED BY <1>1, <2>2, updateStatusKeeps
<1>2. ASSUME IInv, publishPersistent PROVE IInv'
  <2>1. pc = "status"
    BY <1>2 DEF publishPersistent
  <2>2. CASE Refused
    BY <1>2, <2>1, <2>2, RefusedKeeps
  <2>3. CASE \E ip \in resolveStatefulSetEndpoint :
               updateStatus(statusOf("Ready", ip, Cardinality(seen["pods"])), FALSE)
    BY <1>1, <1>2, <2>1, <2>3
  <2> QED BY <1>2, <2>2, <2>3 DEF publishPersistent
<1>3. ASSUME IInv, publishSleepy PROVE IInv'
  <2>1. pc = "status"
    BY <1>3 DEF publishSleepy
  <2>2. CASE updateStatus(statusOf("ScalingDown", None, 0), TRUE)
    <3>1. statusOf("ScalingDown", None, 0) \in Status
      BY <1>3, <2>1, statusOfType
    <3> QED BY <1>3, <2>1, <2>2, <3>1, updateStatusKeeps
  <2>3. CASE \E ip \in resolveStatefulSetEndpoint :
               updateStatus(statusOf("Ready", ip, Cardinality(seen["pods"])), TRUE)
    BY <1>1, <1>3, <2>1, <2>3
  <2> QED BY <1>3, <2>2, <2>3 DEF publishSleepy
<1> QED BY <1>2, <1>3

\* A new process lists every object, so that no cache of its own is behind.
LEMMA RestartKeeps == IInv /\ RestartController => IInv'
<1> SUFFICES ASSUME IInv, RestartController PROVE IInv'
  OBVIOUS
<1>1. /\ faults < MaxFaults /\ faults' = faults + 1
      /\ pc' = "idle" /\ b' = None /\ spec' = None /\ desired' = 0
      /\ inhand' = "none" /\ delayed' = FALSE
      /\ seen' = api /\ lag' = {} /\ queued' \in BOOLEAN
      /\ UNCHANGED <<api, uids, edits, stamps, expired, building>>
  BY DEF RestartController
<1>2. ClusterTypeOK' /\ CachesAgree'
  BY <1>1 DEF IInv, TypeOK, ClusterTypeOK, CachesAgree
<1>3. EnvironmentTypeOK'
  BY <1>1, Bounds DEF IInv, TypeOK, EnvironmentTypeOK
<1>4. WorkerTypeOK' /\ CopyIsCurrent' /\ ExposureChecked' /\ ServicesWritten'
  BY <1>1 DEF WorkerTypeOK, CopyIsCurrent, ExposureChecked, ServicesWritten, Calls
<1>5. ServicesBeforeStatefulSet'
  BY <1>1 DEF IInv, ServicesBeforeStatefulSet
<1> QED
  BY <1>2, <1>3, <1>4, <1>5 DEF IInv, TypeOK

-----------------------------------------------------------------------------
(* The steps of the users and of the cluster.                              *)

\* A user writes the builder, or removes it.
LEMMA BuilderWrittenKeeps ==
  ASSUME IInv, NEW x \in Builder \cup {None},
         StoreByOthers(With("builder", x), {}), UNCHANGED worker,
         EnvironmentTypeOK'
  PROVE  IInv'
BY WithBuilder, StoreByOthersKeeps

\* A builder that exists is a builder.
LEMMA StoredBuilder ==
  ASSUME IInv, api["builder"] # None
  PROVE  api["builder"] \in Builder
BY ObjectKinds DEF IInv, TypeOK, ClusterTypeOK, Names

\* A step of the environment's counters alone.
LEMMA ClusterUnchangedKeeps ==
  ASSUME IInv, UNCHANGED <<clusterVars, worker>>, EnvironmentTypeOK'
  PROVE  IInv'
BY DEF IInv, TypeOK, ClusterTypeOK, WorkerTypeOK, CachesAgree, CopyIsCurrent,
       ExposureChecked, ServicesWritten, ServicesBeforeStatefulSet,
       clusterVars, worker

\* No step of the users or of BuilderHub breaks the invariant.
LEMMA UsersKeep == IInv /\ Users => IInv'
<1> SUFFICES ASSUME IInv, Users PROVE IInv'
  OBVIOUS
<1> USE Bounds
<1>1. EnvironmentTypeOK
  BY DEF IInv, TypeOK
<1>2. ASSUME NEW s \in Specs, NEW finalizer \in Finalizers,
             CreateBuilder(s, finalizer)
      PROVE  IInv'
  <2> DEFINE x == [uid |-> uids + 1, deleting |-> FALSE, finalizer |-> finalizer,
                   spec |-> s, lastUsed |-> None, status |-> None]
  <2>1. EnvironmentTypeOK'
    BY <1>1, <1>2 DEF EnvironmentTypeOK, CreateBuilder
  <2>2. uids + 1 \in Uids
    BY <1>1, <1>2 DEF EnvironmentTypeOK, CreateBuilder, Uids
  <2>3. x \in Builder
    BY <2>2, ControllerAssumption DEF Builder
  <2>4. StoreByOthers(With("builder", x), {}) /\ UNCHANGED worker
    BY <1>2 DEF CreateBuilder
  <2> HIDE DEF x
  <2> QED BY <2>1, <2>3, <2>4, BuilderWrittenKeeps
<1>3. ASSUME NEW s \in Specs, EditSpec(s) PROVE IInv'
  <2> DEFINE x == [api["builder"] EXCEPT !.spec = s]
  <2>1. EnvironmentTypeOK'
    BY <1>1, <1>3 DEF EnvironmentTypeOK, EditSpec
  <2>2. x \in Builder
    <3>1. api["builder"] \in Builder /\ s \in BuildkitBuilderSpec
      BY <1>3, StoredBuilder, ControllerAssumption DEF EditSpec
    <3> QED BY <3>1 DEF Builder
  <2>3. StoreByOthers(With("builder", x), {}) /\ UNCHANGED worker
    BY <1>3 DEF EditSpec
  <2> HIDE DEF x
  <2> QED BY <2>1, <2>2, <2>3, BuilderWrittenKeeps
<1>4. ASSUME NEW t \in Templates, EditTemplate(t) PROVE IInv'
  <2> DEFINE new == With("template", t)
  <2>1. EnvironmentTypeOK'
    BY <1>1, <1>4 DEF EnvironmentTypeOK, EditTemplate
  <2>2. /\ "template" \in Names \ {"sts"} /\ "template" \notin Services
        /\ t \in Object("template") /\ Services \subseteq Names \ {"template"}
    BY ObjectKinds, ControllerAssumption DEF Names, Children, Services
  <2>3. /\ DOMAIN new = Names /\ \A n \in Names : new[n] \in Object(n)
        /\ KeepsServices(new) /\ \A s \in Services : new[s] = api[s]
    BY <2>2, WithIsTyped, WithKeepsServices DEF IInv, TypeOK
  <2>4. StoreByOthers(new, {}) /\ UNCHANGED worker
    BY <1>4 DEF EditTemplate
  <2> HIDE DEF new
  <2> QED BY <2>1, <2>3, <2>4, StoreByOthersKeeps
<1>5. ASSUME NEW v \in {None, 0}, EditLastUsed(v) PROVE IInv'
  <2> DEFINE x == [api["builder"] EXCEPT !.lastUsed = v]
  <2>1. EnvironmentTypeOK'
    BY <1>1, <1>5 DEF EnvironmentTypeOK, EditLastUsed
  <2>2. x \in Builder
    <3>1. api["builder"] \in Builder /\ v \in 0..MaxStamps \cup {None}
      BY <1>5, StoredBuilder DEF EditLastUsed
    <3> QED BY <3>1 DEF Builder
  <2>3. StoreByOthers(With("builder", x), {}) /\ UNCHANGED worker
    BY <1>5 DEF EditLastUsed
  <2> HIDE DEF x
  <2> QED BY <2>1, <2>2, <2>3, BuilderWrittenKeeps
<1>6. ASSUME DeleteBuilder PROVE IInv'
  <2> DEFINE x == IF api["builder"].finalizer
                  THEN [api["builder"] EXCEPT !.deleting = TRUE] ELSE None
  <2>1. EnvironmentTypeOK'
    BY <1>1, <1>6 DEF EnvironmentTypeOK, DeleteBuilder, environment
  <2>2. x \in Builder \cup {None}
    <3>1. api["builder"] \in Builder
      BY <1>6, StoredBuilder DEF DeleteBuilder
    <3> QED BY <3>1 DEF Builder
  <2>3. StoreByOthers(With("builder", x), {}) /\ UNCHANGED worker
    BY <1>6 DEF DeleteBuilder
  <2> HIDE DEF x
  <2> QED BY <2>1, <2>2, <2>3, BuilderWrittenKeeps
<1>7. ASSUME StartBuild PROVE IInv'
  <2> DEFINE x == [api["builder"] EXCEPT !.lastUsed = stamps + 1]
  <2>1. /\ stamps < MaxStamps /\ stamps' = stamps + 1 /\ building' = stamps + 1
        /\ UNCHANGED <<uids, edits, expired, faults>>
    BY <1>7 DEF StartBuild
  <2>2. EnvironmentTypeOK'
    BY <1>1, <2>1 DEF EnvironmentTypeOK
  <2>3. x \in Builder
    <3>1. api["builder"] \in Builder /\ stamps + 1 \in 0..MaxStamps
      BY <1>1, <1>7, StoredBuilder DEF StartBuild, EnvironmentTypeOK
    <3> QED BY <3>1 DEF Builder
  <2>4. StoreByOthers(With("builder", x), {}) /\ UNCHANGED worker
    BY <1>7 DEF StartBuild
  <2> HIDE DEF x
  <2> QED BY <2>2, <2>3, <2>4, BuilderWrittenKeeps
<1>8. ASSUME EndBuild \/ IdlePeriodEnds PROVE IInv'
  <2>1. UNCHANGED <<clusterVars, worker>>
    BY <1>8 DEF EndBuild, IdlePeriodEnds
  <2>2. EnvironmentTypeOK'
    <3>1. CASE EndBuild
      BY <1>1, <3>1 DEF EnvironmentTypeOK, EndBuild
    <3>2. CASE IdlePeriodEnds
      BY <1>1, <3>2 DEF EnvironmentTypeOK, IdlePeriodEnds
    <3> QED BY <1>8, <3>1, <3>2
  <2> QED BY <2>1, <2>2, ClusterUnchangedKeeps
<1> QED
  BY <1>2, <1>3, <1>4, <1>5, <1>6, <1>7, <1>8 DEF Users

\* The StatefulSet controller and the kubelet write the pods.
LEMMA PodsWrittenKeeps ==
  ASSUME IInv, NEW x \in SUBSET IPs, NEW bumped \in {{}, {"sts"}},
         StoreByOthers(With("pods", x), bumped), UNCHANGED worker,
         EnvironmentTypeOK'
  PROVE  IInv'
<1>1. /\ "pods" \in Names \ {"sts"} /\ "pods" \notin Services
      /\ x \in Object("pods") /\ Services \subseteq Names \ {"pods"}
      /\ bumped \subseteq Names
  BY ObjectKinds DEF Names, Children, Owned, Services
<1> DEFINE new == With("pods", x)
<1>2. /\ DOMAIN new = Names /\ \A n \in Names : new[n] \in Object(n)
      /\ KeepsServices(new) /\ \A s \in Services : new[s] = api[s]
  BY <1>1, WithIsTyped, WithKeepsServices DEF IInv, TypeOK
<1> HIDE DEF new
<1> QED
  BY <1>1, <1>2, StoreByOthersKeeps DEF new

\* Pods start, stop and crash.
LEMMA PodStepsKeep ==
  ASSUME IInv, NEW ip \in IPs, PodStarts(ip) \/ PodStops(ip) \/ PodCrashes(ip)
  PROVE  IInv'
<1>1. api["pods"] \subseteq IPs /\ EnvironmentTypeOK
  BY ObjectKinds DEF IInv, TypeOK, ClusterTypeOK, Names
<1>2. CASE PodStarts(ip)
  <2>1. EnvironmentTypeOK'
    BY <1>1, <1>2 DEF EnvironmentTypeOK, PodStarts, environment
  <2> QED BY <1>1, <1>2, <2>1, PodsWrittenKeeps DEF PodStarts
<1>3. CASE PodStops(ip)
  <2>1. EnvironmentTypeOK'
    BY <1>1, <1>3 DEF EnvironmentTypeOK, PodStops, environment
  <2> QED BY <1>1, <1>3, <2>1, PodsWrittenKeeps DEF PodStops
<1>4. CASE PodCrashes(ip)
  <2>1. EnvironmentTypeOK'
    BY <1>1, <1>4, Bounds DEF EnvironmentTypeOK, PodCrashes
  <2> QED BY <1>1, <1>4, <2>1, PodsWrittenKeeps DEF PodCrashes
<1> QED BY <1>2, <1>3, <1>4

\* The Services have no owner reference, so they are never collected.
LEMMA GarbageCollectKeeps ==
  ASSUME IInv, NEW k \in Children, GarbageCollect(k)
  PROVE  IInv'
<1> DEFINE new == With(k, None)
<1>1. ClusterTypeOK
  BY DEF IInv, TypeOK
<1>2. k \notin Services
  <2>1. SUFFICES ASSUME k \in Services PROVE FALSE
    OBVIOUS
  <2>2. api[k] \in ServiceObject \cup {None}
    BY <1>1, <2>1, ObjectKinds DEF ClusterTypeOK, Names, Children, Services
  <2> QED BY <2>2 DEF GarbageCollect, ServiceObject
<1>3. /\ k \in Names /\ None \in Object(k)
      /\ Services \subseteq Names \ {k} /\ "sts" \in Names
  BY <1>2, ObjectKinds DEF Names, Children, Owned, Services
<1>4. /\ DOMAIN new = Names /\ \A n \in Names : new[n] \in Object(n)
      /\ new[k] = None /\ \A n \in Names \ {k} : new[n] = api[n]
  BY <1>1, <1>3, WithIsTyped
<1> HIDE DEF new
<1>5. \A s \in Services : new[s] = api[s]
  BY <1>3, <1>4
<1>6. KeepsServices(new)
  BY <1>3, <1>4, <1>5 DEF KeepsServices
<1>7. EnvironmentTypeOK'
  BY DEF IInv, TypeOK, EnvironmentTypeOK, GarbageCollect, environment
<1> QED
  BY <1>4, <1>5, <1>6, <1>7, StoreByOthersKeeps DEF GarbageCollect, new

\* No step of the informers, the queue, the StatefulSet controller or the
\* garbage collector breaks the invariant.
LEMMA ClusterKeeps == IInv /\ Cluster => IInv'
<1> SUFFICES ASSUME IInv, Cluster PROVE IInv'
  OBVIOUS
<1>1. ASSUME UNCHANGED <<api, inhand, worker, environment>>, delayed' \in BOOLEAN,
             ClusterTypeOK', CachesAgree'
      PROVE  IInv'
  BY <1>1 DEF IInv, TypeOK, WorkerTypeOK, EnvironmentTypeOK, CopyIsCurrent,
              ExposureChecked, ServicesWritten, ServicesBeforeStatefulSet,
              worker, environment
<1>2. ASSUME NEW n \in Lagging, Sync(n), UNCHANGED <<worker, environment>>
      PROVE  IInv'
  <2>1. ClusterTypeOK' /\ CachesAgree'
    BY <1>2 DEF IInv, TypeOK, ClusterTypeOK, CachesAgree, Sync
  <2>2. UNCHANGED <<api, inhand>> /\ delayed' \in BOOLEAN
    BY <1>2 DEF Sync, IInv, TypeOK, WorkerTypeOK
  <2> QED BY <1>1, <1>2, <2>1, <2>2
<1>3. ASSUME DelayEnds \/ Resync, UNCHANGED <<worker, environment>>
      PROVE  IInv'
  <2>1. /\ UNCHANGED <<api, seen, lag, inhand>> /\ queued' = TRUE
        /\ delayed' \in BOOLEAN
    BY <1>3 DEF DelayEnds, Resync, IInv, TypeOK, WorkerTypeOK
  <2>2. ClusterTypeOK' /\ CachesAgree'
    BY <2>1 DEF IInv, TypeOK, ClusterTypeOK, CachesAgree
  <2> QED BY <1>1, <1>3, <2>1, <2>2
<1> QED
  BY <1>2, <1>3, PodStepsKeep, GarbageCollectKeeps DEF Cluster

-----------------------------------------------------------------------------
(* The invariant, and what it implies.                                     *)

\* The invariant holds before any builder is created.
LEMMA InitEstablishes == Init => IInv
<1> SUFFICES ASSUME Init PROVE IInv
  OBVIOUS
<1>1. PICK t \in Templates :
        api = [n \in Names |-> CASE n = "template" -> t
                                 [] n = "pods" -> {}
                                 [] OTHER -> None]
  BY DEF Init
<1>2. /\ api["template"] = t /\ api["pods"] = {}
      /\ \A n \in Names \ {"template", "pods"} : api[n] = None
  BY <1>1 DEF Names
<1>3. \A n \in Names : api[n] \in Object(n)
  BY <1>2, ObjectKinds, ControllerAssumption DEF Names, Children, Owned, Services
<1>4. ClusterTypeOK
  BY <1>1, <1>3 DEF ClusterTypeOK, Init
<1>5. WorkerTypeOK /\ EnvironmentTypeOK
  <2>1. /\ pc = "idle" /\ b = None /\ spec = None /\ inhand = "none"
        /\ desired = 0 /\ delayed = FALSE
    BY DEF Init
  <2>2. WorkerTypeOK
    BY <2>1 DEF WorkerTypeOK
  <2>3. /\ uids = 0 /\ edits = 0 /\ stamps = 0 /\ expired = 0
        /\ building = 0 /\ faults = 0
    BY DEF Init
  <2>4. EnvironmentTypeOK
    BY <2>3, Bounds DEF EnvironmentTypeOK
  <2> QED BY <2>2, <2>4
<1>6. /\ CachesAgree /\ CopyIsCurrent /\ ExposureChecked
      /\ ServicesWritten /\ ServicesBeforeStatefulSet
  BY <1>2 DEF Init, CachesAgree, CopyIsCurrent, ExposureChecked, ServicesWritten,
              ServicesBeforeStatefulSet, Calls, Names, Children, Owned
<1> QED
  BY <1>4, <1>5, <1>6 DEF IInv, TypeOK

\* Every step of the specification keeps the invariant.
LEMMA NextKeeps == IInv /\ [Next]_vars => IInv'
<1> SUFFICES ASSUME IInv, [Next]_vars PROVE IInv'
  OBVIOUS
<1>1. CASE Reconcile
  BY <1>1, BeginReconcileKeeps, reconcileDeleteKeeps,
     ensureBuildkitdConfigMapKeeps, createHeadlessServiceKeeps,
     createNodePortServiceKeeps, deleteCallsKeep, ensureNamespaceCAKeeps,
     ensureBuilderServerCertKeeps, createOrUpdateIngressRouteKeeps,
     createOrUpdatePVCKeeps, createOrUpdateStatefulSetKeeps, publishKeeps
  DEF Reconcile
<1>2. CASE RestartController
  BY <1>2, RestartKeeps
<1>3. CASE Users
  BY <1>3, UsersKeep
<1>4. CASE Cluster
  BY <1>4, ClusterKeeps
<1>5. CASE UNCHANGED vars
  <2>1. UNCHANGED <<clusterVars, worker>> /\ UNCHANGED environment
    BY <1>5 DEF vars
  <2>2. EnvironmentTypeOK'
    BY <2>1 DEF IInv, TypeOK, EnvironmentTypeOK, environment
  <2> QED BY <2>1, <2>2, ClusterUnchangedKeeps
<1> QED
  BY <1>1, <1>2, <1>3, <1>4, <1>5 DEF Next

\* The inductive invariant holds in every reachable state of the reconcile
\* loop, whatever the specs, the templates, the lagging caches and the bounds.
THEOREM Invariant == Spec => []IInv
BY InitEstablishes, NextKeeps, PTL DEF Spec

\* Type correctness of the cluster, of the worker and of the environment: no
\* step of Reconcile stores a malformed object or loses its copies.
THEOREM TypeCorrect == Spec => []TypeOK
<1>1. IInv => TypeOK
  BY DEF IInv
<1> QED BY <1>1, Invariant, PTL

\* No order of failed calls, refused writes, restarts and stale reads lets
\* createOrUpdateStatefulSet write a StatefulSet before both Services exist,
\* or removes a Service under it.
THEOREM ServicesFirst == Spec => []ServicesBeforeStatefulSet
<1>1. IInv => ServicesBeforeStatefulSet
  BY DEF IInv
<1> QED BY <1>1, Invariant, PTL

=============================================================================
