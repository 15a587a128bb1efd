-------------------------- MODULE BuilderController --------------------------
(***************************************************************************)
(* The reconcile loop of BuildkitBuilderReconciler for one builder name,   *)
(* one API call per step, against the cluster of KubeCluster; the users,   *)
(* the BuilderHub API, the StatefulSet controller and the garbage          *)
(* collector act between its steps.                                        *)
(*                                                                         *)
(* The worker reads the builder once (b) and works from that copy until it *)
(* returns.  Time is abstracted to the last-used stamps: stamp n is older  *)
(* than idleTimeoutSeconds as soon as n <= expired.                        *)
(***************************************************************************)
EXTENDS DesiredObjects, KubeCluster

CONSTANTS
  Specs,        \* the specs users apply
  Templates,    \* the contents the template may be given, None for deleted
  Finalizers,   \* whether a builder may be created with FinalizerPVC
  IPs,          \* pod addresses
  MaxUids,      \* bound: builders created, one after the other
  MaxEdits,     \* bound: edits of the spec, the template or the annotation
  MaxStamps,    \* bound: builds started
  MaxFaults     \* bound: failed API calls, pod crashes, controller restarts

ASSUME ControllerAssumption ==
  /\ Specs \subseteq BuildkitBuilderSpec
  /\ Templates \subseteq BuildkitBuilderTemplateSpec \cup {None}
  /\ Finalizers \subseteq BOOLEAN
  /\ IsFiniteSet(IPs) /\ None \notin IPs /\ None \notin Nat
  /\ {MaxUids, MaxEdits, MaxStamps, MaxFaults} \subseteq Nat

VARIABLES
  pc,        \* the API call the worker is at, "idle" between reconciles
  b,         \* the worker's copy of the builder
  spec,      \* its resolved template
  desired,   \* desiredReplicas as decided when the StatefulSet was written
  uids,      \* builders created so far
  edits,     \* edits made so far
  stamps,    \* last-used stamps issued so far
  expired,   \* the newest stamp older than the idle timeout
  building,  \* the stamp of the build in progress, 0 for none
  faults     \* faults so far

worker == <<pc, b, spec, desired>>
environment == <<uids, edits, stamps, expired, building, faults>>
vars == <<clusterVars, worker, environment>>

Init ==
  /\ \E t \in Templates :
       api = [n \in Names |-> CASE n = "template" -> t
                                [] n = "pods" -> {}
                                [] OTHER -> None]
  /\ seen = api
  /\ lag = {}
  /\ queued = FALSE /\ delayed = FALSE /\ inhand = "none"
  /\ pc = "idle" /\ b = None /\ spec = None /\ desired = 0
  /\ uids = 0 /\ edits = 0 /\ stamps = 0 /\ expired = 0
  /\ building = 0 /\ faults = 0

-----------------------------------------------------------------------------
(* Returning from Reconcile, and the outcomes of one API call.             *)

\* Reconcile returns.  An error is retried after a back-off, and a result
\* with RequeueAfter later on: both add the key again after a delay.
Return(again) ==
  /\ pc' = "idle" /\ b' = None /\ spec' = None /\ desired' = 0
  /\ inhand' = "none"
  /\ delayed' = (delayed \/ again)

Continue(next) ==
  /\ pc' = next
  /\ UNCHANGED <<b, spec, desired, inhand, delayed>>

With(k, object) == [api EXCEPT ![k] = object]

\* Mutant: the error of a call is logged and Reconcile returns no error.
CallFailsUnreported(new, bumped) ==
  /\ faults < MaxFaults
  /\ faults' = faults + 1
  /\ Store(new, bumped) \/ Store(api, {})
  /\ Return(FALSE)
  /\ UNCHANGED <<uids, edits, stamps, expired, building>>

\* A call that would take the store to `new` fails or times out: the error
\* says nothing of whether the API server applied it.
CallFails(new, bumped) ==
  /\ faults < MaxFaults
  /\ faults' = faults + 1
  /\ Store(new, bumped) \/ Store(api, {})
  /\ Return(TRUE)
  /\ UNCHANGED <<uids, edits, stamps, expired, building>>

CallSucceeds(new, bumped) == Store(new, bumped) /\ UNCHANGED environment

\* The API server refuses the write (Conflict, AlreadyExists, NotFound,
\* Invalid), or the code returns an error before any call.
Refused ==
  /\ Return(TRUE)
  /\ UNCHANGED <<api, seen, lag, queued, environment>>

Call(new, next) ==
  \/ CallSucceeds(new, {}) /\ Continue(next)
  \/ CallFails(new, {})

Skip(next) == Continue(next) /\ UNCHANGED <<api, seen, lag, queued, environment>>

\* Create after a cached read that found nothing, Update with the resource
\* version of the cached copy otherwise.
Accepted(k) == IF seen[k] = None THEN api[k] = None ELSE k \notin lag

CreateOrUpdate(k, object, next) ==
  \/ Accepted(k) /\ Call(With(k, object), next)
  \/ ~Accepted(k) /\ Refused

-----------------------------------------------------------------------------
(* Reconcile, one action per API call.                                     *)

\* Reconcile up to the branch on the mode: cached reads of the builder and
\* of its template, resolveSpec, and only then the deletion check.
BeginReconcile ==
  /\ pc = "idle" /\ queued
  /\ queued' = FALSE
  /\ UNCHANGED <<api, seen, lag, environment>>
  /\ LET builder == seen["builder"]
     IN  \/ builder = None /\ Return(FALSE)
         \/ /\ builder # None
            /\ Unresolvable(builder.spec, seen["template"])
            /\ Return(TRUE)
         \/ /\ builder # None
            /\ ~Unresolvable(builder.spec, seen["template"])
            /\ pc' = IF builder.deleting THEN "finalize" ELSE "cm"
            /\ b' = builder
            /\ spec' = resolveSpec(builder.spec, seen["template"])
            /\ inhand' = IF "builder" \in lag THEN "outdated" ELSE "current"
            /\ UNCHANGED <<desired, delayed>>

\* Mutants: the finalizer is removed from the worker's copy only; the error of
\* the Update that removes it is not returned.
reconcileDeleteInMemory ==
  /\ pc = "finalize" /\ Return(FALSE)
  /\ UNCHANGED <<api, seen, lag, queued, environment>>

reconcileDeleteUnreported ==
  /\ pc = "finalize"
  /\ \/ /\ inhand = "current"
        /\ \/ CallSucceeds(With("builder", None), {}) /\ Return(FALSE)
           \/ CallFailsUnreported(With("builder", None), {})
     \/ inhand # "current" /\ Refused

\* A builder that is being deleted always has the finalizer here: without
\* one the API server removes it at once.
reconcileDelete ==
  /\ pc = "finalize"
  /\ \/ /\ inhand = "current"
        /\ \/ CallSucceeds(With("builder", None), {}) /\ Return(FALSE)
           \/ CallFails(With("builder", None), {})
     \/ inhand # "current" /\ Refused

\* Mutant: an existing ConfigMap is left alone, as an existing PVC is.
ensureBuildkitdConfigMapOnce ==
  /\ pc = "cm"
  /\ \/ seen["cm"] # None /\ Skip("hsvc")
     \/ /\ seen["cm"] = None
        /\ CreateOrUpdate("cm", buildkitdConfigMap(b.uid, b, spec), "hsvc")

\* An update keeps the metadata of the existing ConfigMap, owner included.
ensureBuildkitdConfigMap ==
  /\ pc = "cm"
  /\ LET owner == IF seen["cm"] = None THEN b.uid ELSE seen["cm"].owner
     IN  CreateOrUpdate("cm", buildkitdConfigMap(owner, b, spec), "hsvc")

\* Mutant: the reconcile goes on when the headless Service is not written.
createHeadlessServiceBestEffort ==
  /\ pc = "hsvc"
  /\ \/ CreateOrUpdate("hsvc", serviceForBuilder(b), "csvc")
     \/ /\ faults < MaxFaults /\ faults' = faults + 1
        /\ Store(api, {}) /\ Continue("csvc")
        /\ UNCHANGED <<uids, edits, stamps, expired, building>>

createHeadlessService ==
  /\ pc = "hsvc"
  /\ CreateOrUpdate("hsvc", serviceForBuilder(b), "csvc")

\* Mutant: the reconcile goes on when the NodePort Service is not written.
createNodePortServiceBestEffort ==
  /\ pc = "csvc"
  /\ LET next == IF exposureEnabled(b.spec) THEN "ca" ELSE "delroute"
     IN  \/ CreateOrUpdate("csvc", serviceForBuilder(b), next)
         \/ /\ faults < MaxFaults /\ faults' = faults + 1
            /\ Store(api, {}) /\ Continue(next)
            /\ UNCHANGED <<uids, edits, stamps, expired, building>>

createNodePortService ==
  /\ pc = "csvc"
  /\ CreateOrUpdate("csvc", serviceForBuilder(b),
                    IF exposureEnabled(b.spec) THEN "ca" ELSE "delroute")

\* reconcileExposure of a builder that is not exposed: NotFound is ignored.
deleteIngressRouteIfExists ==
  /\ pc = "delroute"
  /\ Call(With("route", None), "delsecret")

AfterExposure == IF UsesPVC(spec) THEN "pvc" ELSE "sts"

deleteBuilderServerCert ==
  /\ pc = "delsecret"
  /\ Call(With("secret", None), AfterExposure)

\* reconcileExposure of an exposed builder.  AlreadyExists means that the
\* cache was behind: the code reads the CA again, from the same cache, which
\* may have caught up by then.
ensureNamespaceCA ==
  /\ pc = "ca"
  /\ \/ b.spec.exposure.host = None /\ Refused
     \/ /\ b.spec.exposure.host # None
        /\ \/ seen["ca"] # None /\ Skip("secret")
           \/ seen["ca"] = None /\ api["ca"] = None /\ Call(With("ca", namespaceCA), "secret")
           \/ seen["ca"] = None /\ api["ca"] # None /\ Refused
           \/ /\ seen["ca"] = None /\ api["ca"] # None
              /\ seen' = [seen EXCEPT !["ca"] = api["ca"]]
              /\ lag' = lag \ {"ca"}
              /\ Continue("secret")
              /\ UNCHANGED <<api, queued, environment>>

CertUsable == seen["secret"] # None /\ seen["secret"].host = b.spec.exposure.host

\* Mutant: the reconcile goes on when the certificate is not written.
ensureBuilderServerCertBestEffort ==
  /\ pc = "secret"
  /\ \/ CertUsable /\ Skip("route")
     \/ ~CertUsable /\ CreateOrUpdate("secret", serverCert(b.uid, b), "route")
     \/ /\ ~CertUsable /\ faults < MaxFaults /\ faults' = faults + 1
        /\ Store(api, {}) /\ Continue("route")
        /\ UNCHANGED <<uids, edits, stamps, expired, building>>

\* AlreadyExists is taken for success here, and an update keeps the owner.
ensureBuilderServerCert ==
  /\ pc = "secret"
  /\ \/ CertUsable /\ Skip("route")
     \/ /\ seen["secret"] = None
        /\ api["secret"] = None
        /\ Call(With("secret", serverCert(b.uid, b)), "route")
     \/ /\ seen["secret"] = None
        /\ api["secret"] # None
        /\ Skip("route")
     \/ /\ seen["secret"] # None /\ ~CertUsable
        /\ CreateOrUpdate("secret", serverCert(seen["secret"].owner, b), "route")

createOrUpdateIngressRoute ==
  /\ pc = "route"
  /\ Call(With("route", ingressRouteForBuilder(b)), AfterExposure)

\* An existing PVC is left alone.
createOrUpdatePVC ==
  /\ pc = "pvc"
  /\ \/ seen["pvc"] # None /\ Skip("sts")
     \/ seen["pvc"] = None /\ CreateOrUpdate("pvc", pvcForBuilder(b), "sts")

\* Mutant: a builder without a last-used annotation is not scaled up.
desiredReplicasOnceUsed(x) ==
  IF x.spec.mode = "persistent" THEN x.spec.replicas
  ELSE IF x.lastUsed \notin {None, 0} /\ x.lastUsed > expired THEN 1 ELSE 0

\* A sleepy builder runs while its last-used stamp is fresh, or absent; an
\* unparsable stamp (0) is never fresh.
desiredReplicas(x) ==
  IF x.spec.mode = "persistent" THEN x.spec.replicas
  ELSE IF x.lastUsed = None THEN 1
  ELSE IF x.lastUsed > expired THEN 1 ELSE 0

\* The API server forbids any change of a StatefulSet's selector.
SelectorAllowed(sts) == api["sts"] # None => api["sts"].selector = sts.selector

createOrUpdateStatefulSet ==
  /\ pc = "sts"
  /\ LET n   == desiredReplicas(b)
         sts == statefulSetForBuilder(b, spec, n)
     IN  \/ /\ Accepted("sts") /\ SelectorAllowed(sts)
            /\ \/ /\ CallSucceeds(With("sts", sts), {})
                  /\ pc' = "status" /\ desired' = n
                  /\ UNCHANGED <<b, spec, inhand, delayed>>
               \/ CallFails(With("sts", sts), {})
         \/ ~(Accepted("sts") /\ SelectorAllowed(sts)) /\ Refused

resolveNodePort == seen["csvc"] # None

\* The endpoint may be the address of any running pod in the cached list.
resolveStatefulSetEndpoint == IF seen["pods"] = {} THEN {None} ELSE seen["pods"]

\* What updateStatus and updateStatusWithLastScaled report; tlsSecret says
\* whether exposureTLSSecretName names the Secret, which nothing looks up here.
statusOf(phase, endpoint, ready) ==
  [phase |-> phase, endpoint |-> endpoint, readyReplicas |-> ready,
   desiredReplicas |-> desired, nodePort |-> resolveNodePort,
   externalHost |-> externalEndpointForBuilder(b),
   tlsSecret |-> exposureEnabled(b.spec)]

\* Mutant: the status is patched whatever the version in hand.
StatusAcceptedByName == api["builder"] # None

StatusAccepted == inhand = "current"

\* The status carries the time of the update, in seconds: unless an equal
\* status was written within the same second the builder gets a new version.
updateStatus(status, again) ==
  LET new == With("builder", [api["builder"] EXCEPT !.status = status])
  IN  \/ /\ StatusAccepted
         /\ \E bumped \in {{}, {"builder"}} :
              \/ CallSucceeds(new, bumped) /\ Return(again)
              \/ CallFails(new, bumped)
      \/ ~StatusAccepted /\ Refused

\* A persistent builder without a running pod is looked at again later.
publishPersistent ==
  /\ pc = "status" /\ b.spec.mode = "persistent"
  /\ \E ip \in resolveStatefulSetEndpoint :
       \/ ip = None /\ Refused
       \/ /\ ip # None
          /\ updateStatus(statusOf("Ready", ip, Cardinality(seen["pods"])), FALSE)

\* Mutant: no RequeueAfter at the end of reconcileSleepy.
publishSleepyOnce ==
  /\ pc = "status" /\ b.spec.mode = "sleepy"
  /\ \/ desired = 0 /\ updateStatus(statusOf("ScalingDown", None, 0), FALSE)
     \/ /\ desired = 1
        /\ \E ip \in resolveStatefulSetEndpoint :
             updateStatus(statusOf("Ready", ip, Cardinality(seen["pods"])), FALSE)

publishSleepy ==
  /\ pc = "status" /\ b.spec.mode = "sleepy"
  /\ \/ desired = 0 /\ updateStatus(statusOf("ScalingDown", None, 0), TRUE)
     \/ /\ desired = 1
        /\ \E ip \in resolveStatefulSetEndpoint :
             updateStatus(statusOf("Ready", ip, Cardinality(seen["pods"])), TRUE)

Reconcile ==
  \/ BeginReconcile \/ reconcileDelete
  \/ ensureBuildkitdConfigMap \/ createHeadlessService \/ createNodePortService
  \/ deleteIngressRouteIfExists \/ deleteBuilderServerCert
  \/ ensureNamespaceCA \/ ensureBuilderServerCert \/ createOrUpdateIngressRoute
  \/ createOrUpdatePVC \/ createOrUpdateStatefulSet
  \/ publishPersistent \/ publishSleepy

\* The process dies and another takes the lease: its queue and the work in
\* hand are gone, and its informers start with a list of every object.
RestartController ==
  /\ faults < MaxFaults
  /\ faults' = faults + 1
  /\ pc' = "idle" /\ b' = None /\ spec' = None /\ desired' = 0
  /\ inhand' = "none" /\ delayed' = FALSE
  /\ seen' = api /\ lag' = {}
  /\ queued' = (\E n \in Watched : api[n] # None)
  /\ UNCHANGED <<api, uids, edits, stamps, expired, building>>

-----------------------------------------------------------------------------
(* The users and the BuilderHub API.                                       *)

CreateBuilder(s, finalizer) ==
  /\ api["builder"] = None
  /\ uids < MaxUids
  /\ uids' = uids + 1
  /\ StoreByOthers(With("builder",
       [uid |-> uids + 1, deleting |-> FALSE, finalizer |-> finalizer,
        spec |-> s, lastUsed |-> None, status |-> None]), {})
  /\ UNCHANGED <<worker, edits, stamps, expired, building, faults>>

EditSpec(s) ==
  /\ api["builder"] # None /\ s # api["builder"].spec
  /\ edits < MaxEdits
  /\ edits' = edits + 1
  /\ StoreByOthers(With("builder", [api["builder"] EXCEPT !.spec = s]), {})
  /\ UNCHANGED <<worker, uids, stamps, expired, building, faults>>

EditTemplate(t) ==
  /\ t # api["template"]
  /\ edits < MaxEdits
  /\ edits' = edits + 1
  /\ StoreByOthers(With("template", t), {})
  /\ UNCHANGED <<worker, uids, stamps, expired, building, faults>>

\* The annotation is removed (None) or overwritten with garbage (0).
EditLastUsed(v) ==
  /\ api["builder"] # None /\ api["builder"].lastUsed # v
  /\ edits < MaxEdits
  /\ edits' = edits + 1
  /\ StoreByOthers(With("builder", [api["builder"] EXCEPT !.lastUsed = v]), {})
  /\ UNCHANGED <<worker, uids, stamps, expired, building, faults>>

DeleteBuilder ==
  /\ api["builder"] # None /\ ~api["builder"].deleting
  /\ StoreByOthers(With("builder",
       IF api["builder"].finalizer THEN [api["builder"] EXCEPT !.deleting = TRUE]
       ELSE None), {})
  /\ UNCHANGED <<worker, environment>>

\* The BuilderHub API stamps the builder when it starts a build.
StartBuild ==
  /\ api["builder"] # None /\ building = 0
  /\ stamps < MaxStamps
  /\ stamps' = stamps + 1
  /\ building' = stamps + 1
  /\ StoreByOthers(With("builder", [api["builder"] EXCEPT !.lastUsed = stamps + 1]), {})
  /\ UNCHANGED <<worker, uids, edits, expired, faults>>

EndBuild ==
  /\ building # 0
  /\ building' = 0
  /\ UNCHANGED <<clusterVars, worker, uids, edits, stamps, expired, faults>>

\* idleTimeoutSeconds have passed since the oldest stamp that was fresh.
IdlePeriodEnds ==
  /\ expired < stamps
  /\ expired' = expired + 1
  /\ UNCHANGED <<clusterVars, worker, uids, edits, stamps, building, faults>>

-----------------------------------------------------------------------------
(* The StatefulSet controller, the kubelet and the garbage collector.      *)

\* A pod starts only when everything it mounts exists.
Mountable(pod) ==
  /\ api["cm"] # None
  /\ pod.tls => api["secret"] # None
  /\ pod.pvc => api["pvc"] # None

PodStarts(ip) ==
  /\ api["sts"] # None
  /\ Cardinality(api["pods"]) < api["sts"].replicas
  /\ ip \notin api["pods"]
  /\ Mountable(api["sts"].pod)
  /\ StoreByOthers(With("pods", api["pods"] \cup {ip}), {"sts"})
  /\ UNCHANGED <<worker, environment>>

PodStops(ip) ==
  /\ ip \in api["pods"]
  /\ \/ api["sts"] = None
     \/ api["sts"] # None /\ Cardinality(api["pods"]) > api["sts"].replicas
  /\ StoreByOthers(With("pods", api["pods"] \ {ip}),
                   IF api["sts"] = None THEN {} ELSE {"sts"})
  /\ UNCHANGED <<worker, environment>>

PodCrashes(ip) ==
  /\ ip \in api["pods"] /\ api["sts"] # None
  /\ faults < MaxFaults
  /\ faults' = faults + 1
  /\ StoreByOthers(With("pods", api["pods"] \ {ip}), {"sts"})
  /\ UNCHANGED <<worker, uids, edits, stamps, expired, building>>

\* An object with an owner that does not exist (any more) is collected; a PVC
\* not before the pods that mount it are gone.
GarbageCollect(k) ==
  /\ api[k] # None /\ api[k].owner # None
  /\ api["builder"] # None => api["builder"].uid # api[k].owner
  /\ k = "pvc" => api["pods"] = {}
  /\ StoreByOthers(With(k, None), {})
  /\ UNCHANGED <<worker, environment>>

-----------------------------------------------------------------------------

Users ==
  \/ \E s \in Specs, finalizer \in Finalizers : CreateBuilder(s, finalizer)
  \/ \E s \in Specs : EditSpec(s)
  \/ \E t \in Templates : EditTemplate(t)
  \/ \E v \in {None, 0} : EditLastUsed(v)
  \/ DeleteBuilder \/ StartBuild \/ EndBuild \/ IdlePeriodEnds

Cluster ==
  \/ \E n \in Lagging : Sync(n) /\ UNCHANGED <<worker, environment>>
  \/ DelayEnds /\ UNCHANGED <<worker, environment>>
  \/ Resync /\ UNCHANGED <<worker, environment>>
  \/ \E ip \in IPs : PodStarts(ip) \/ PodStops(ip) \/ PodCrashes(ip)
  \/ \E k \in Children : GarbageCollect(k)

Next == Reconcile \/ RestartController \/ Users \/ Cluster

Spec == Init /\ [][Next]_vars

\* The worker runs, informers catch up, delays end, the StatefulSet
\* controller and the garbage collector act; nothing obliges the users, and
\* faults are bounded.
Fairness ==
  /\ WF_vars(Reconcile)
  /\ \A n \in Lagging : WF_vars(Sync(n) /\ UNCHANGED <<worker, environment>>)
  /\ WF_vars(DelayEnds /\ UNCHANGED <<worker, environment>>)
  /\ WF_vars(Resync /\ UNCHANGED <<worker, environment>>)
  /\ WF_vars(\E ip \in IPs : PodStarts(ip))
  /\ WF_vars(\E ip \in IPs : PodStops(ip))
  /\ WF_vars(\E k \in Children : GarbageCollect(k))

FairSpec == Spec /\ Fairness

=============================================================================
