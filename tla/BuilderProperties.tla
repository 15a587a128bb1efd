------------------------- MODULE BuilderProperties -------------------------
(***************************************************************************)
(* What the reconcile loop of BuilderController must and must not do.      *)
(***************************************************************************)
EXTENDS BuilderController

Uids == 1..MaxUids

Status ==
  [phase: {"Ready", "ScalingDown"}, endpoint: IPs \cup {None},
   readyReplicas: Nat, desiredReplicas: Nat, nodePort: BOOLEAN,
   externalHost: Hosts \cup {None}, tlsSecret: BOOLEAN]

Builder ==
  [uid: Uids, deleting: BOOLEAN, finalizer: BOOLEAN,
   spec: BuildkitBuilderSpec, lastUsed: 0..MaxStamps \cup {None},
   status: Status \cup {None}]

Object(n) ==
  CASE n = "builder"  -> Builder \cup {None}
    [] n = "template" -> BuildkitBuilderTemplateSpec \cup {None}
    [] n = "pods"     -> SUBSET IPs
    [] n = "cm"       -> ConfigMapObject(Uids) \cup {None}
    [] n \in Services -> ServiceObject \cup {None}
    [] n \in {"secret", "route"} -> HostObject(Uids) \cup {None}
    [] n = "pvc"      -> PVCObject(Uids) \cup {None}
    [] n = "sts"      -> StatefulSetObject(Uids) \cup {None}
    [] n = "ca"       -> {namespaceCA, None}

Calls == {"finalize", "cm", "hsvc", "csvc", "delroute", "delsecret", "ca",
          "secret", "route", "pvc", "sts", "status"}

ClusterTypeOK ==
  /\ DOMAIN api = Names /\ DOMAIN seen = Names
  /\ \A n \in Names : api[n] \in Object(n) /\ seen[n] \in Object(n)
  /\ lag \subseteq Lagging
  /\ queued \in BOOLEAN

WorkerTypeOK ==
  /\ pc \in Calls \cup {"idle"}
  /\ pc = "idle" => b = None /\ spec = None /\ inhand = "none"
  /\ pc # "idle" => /\ b \in Builder /\ spec \in BuildkitBuilderTemplateSpec
                    /\ inhand \in {"current", "outdated"}
  /\ desired \in Nat
  /\ delayed \in BOOLEAN

EnvironmentTypeOK ==
  /\ uids \in 0..MaxUids /\ edits \in 0..MaxEdits
  /\ stamps \in 0..MaxStamps /\ expired \in 0..stamps
  /\ building \in 0..stamps /\ faults \in 0..MaxFaults

\* Every object in the API server and in the caches is of its kind, and the
\* worker holds a builder and a resolved template exactly while it reconciles.
TypeOK == ClusterTypeOK /\ WorkerTypeOK /\ EnvironmentTypeOK

-----------------------------------------------------------------------------
(* What the correctness of a reconcile rests on: an inductive invariant.   *)

\* A cached copy is the stored object unless its informer is behind.
CachesAgree == \A n \in Names \ lag : seen[n] = api[n]

\* While the worker's copy has the current version it is the stored builder.
CopyIsCurrent == inhand = "current" => pc # "idle" /\ api["builder"] = b

\* The TLS and routing calls are made for exposed builders only, and with a
\* host once ensureBuilderServerCert has checked that there is one.
ExposureChecked ==
  /\ pc \in {"ca", "secret", "route"} => exposureEnabled(b.spec)
  /\ pc \in {"secret", "route"} => b.spec.exposure.host # None

\* The worker is past a call on a Service only if that Service exists.
ServicesWritten ==
  /\ pc \in Calls \ {"finalize", "cm", "hsvc"} => api["hsvc"] # None
  /\ pc \in Calls \ {"finalize", "cm", "hsvc", "csvc"} => api["csvc"] # None

\* The headless Service is required by the StatefulSet: in no order of
\* failures, restarts and stale reads does a StatefulSet exist without both
\* Services (the calls of reconcilePersistent and reconcileSleepy).
ServicesBeforeStatefulSet ==
  api["sts"] # None => api["hsvc"] # None /\ api["csvc"] # None

IInv ==
  /\ TypeOK
  /\ CachesAgree /\ CopyIsCurrent
  /\ ExposureChecked /\ ServicesWritten /\ ServicesBeforeStatefulSet

\* While nobody has written the builder since the worker read it, the objects
\* whose calls the worker has passed are as it left them: the route is the one
\* of an exposed builder and absent otherwise, the StatefulSet is as written.
RouteDone ==
  api["route"] = IF exposureEnabled(b.spec) THEN ingressRouteForBuilder(b) ELSE None

StatefulSetDone ==
  /\ api["sts"] # None
  /\ api["sts"].owner = b.uid
  /\ api["sts"].replicas = desired
  /\ api["sts"].selector = labelsForBuilder(b)

WorkDone ==
  /\ pc # "idle" => b # None
  /\ pc \in {"delroute", "delsecret"} => ~exposureEnabled(b.spec)
  /\ inhand = "current" =>
       /\ pc \in {"delsecret", "pvc", "sts", "status"} => RouteDone
       /\ pc = "status" => StatefulSetDone

-----------------------------------------------------------------------------
(* The state a reconcile drives the cluster to.                            *)

\* There is a builder that the controller can reconcile without an error of
\* its own making.
Reconcilable ==
  /\ api["builder"] # None
  /\ ~api["builder"].deleting
  /\ ~Unresolvable(api["builder"].spec, api["template"])
  /\ exposureEnabled(api["builder"].spec) => api["builder"].spec.exposure.host # None

\* The children are what the builder and its template ask for.
InSync ==
  LET builder  == api["builder"]
      template == resolveSpec(builder.spec, api["template"])
      exposed  == exposureEnabled(builder.spec)
  IN  /\ api["cm"] = buildkitdConfigMap(builder.uid, builder, template)
      /\ \A s \in Services : api[s] = serviceForBuilder(builder)
      /\ exposed  => /\ api["secret"] = serverCert(builder.uid, builder)
                     /\ api["route"] = ingressRouteForBuilder(builder)
      /\ ~exposed => api["secret"] = None /\ api["route"] = None
      /\ UsesPVC(template) => api["pvc"] # None
      /\ api["sts"] = statefulSetForBuilder(builder, template, desiredReplicas(builder))

\* Something will still make the controller look at the builder.
Awake ==
  \/ queued \/ delayed \/ pc # "idle"
  \/ lag \cap Watched # {}

\* No lost wake-up: while the children differ from what the builder asks
\* for, a reconcile is running or one is going to be triggered.  Every early
\* return, swallowed error and stale read of the pipeline can break it.
NoLostWakeup == Reconcilable /\ ~InSync => Awake

\* Why it holds while the builder is the first of its name and its template, which
\* is not watched, stays as it is.  Nothing but the reconcile in hand is left:
Undisturbed == ~queued /\ ~delayed /\ lag \cap Watched = {}

\* The calls that come after the one on child k ...
Following(k) ==
  CASE k = "cm"     -> Calls \ {"finalize", "cm"}
    [] k = "hsvc"   -> Calls \ {"finalize", "cm", "hsvc"}
    [] k = "csvc"   -> Calls \ {"finalize", "cm", "hsvc", "csvc"}
    [] k = "route"  -> {"delsecret", "pvc", "sts", "status"}
    [] k = "secret" -> {"route", "pvc", "sts", "status"}
    [] k = "pvc"    -> {"sts", "status"}
    [] k = "sts"    -> {"status"}

\* ... and what the copy in hand asks that child to be.
Asked(k, object) ==
  LET exposed == exposureEnabled(b.spec)
  IN  CASE k = "cm"       -> object = buildkitdConfigMap(b.uid, b, spec)
        [] k \in Services -> object = serviceForBuilder(b)
        [] k = "route"    -> object = IF exposed THEN ingressRouteForBuilder(b) ELSE None
        [] k = "secret"   -> object = IF exposed THEN serverCert(b.uid, b) ELSE None
        [] k = "pvc"      -> UsesPVC(spec) => object # None
        [] k = "sts"      -> /\ object = statefulSetForBuilder(b, spec, desired)
                             /\ b.spec.mode = "persistent" => desired = b.spec.replicas

TemplateKept ==
  api["template"] \in Templates /\ seen["template"] = api["template"]

SpecResolved == pc # "idle" => spec = resolveSpec(b.spec, api["template"])

WorkInSync ==
  inhand = "current" /\ Undisturbed =>
    \A k \in Owned \cup Services : pc \in Following(k) => Asked(k, api[k])

RestInSync ==
  pc = "idle" /\ Undisturbed /\ Reconcilable =>
    InSync /\ api["builder"].spec.mode = "persistent"

WakeupInv == TemplateKept /\ SpecResolved /\ WorkInSync /\ RestInSync

-----------------------------------------------------------------------------
(* What a step may never do.                                               *)

\* reconcileExposure issues the server certificate before the pod that mounts
\* it is created: a StatefulSet written with the TLS volume, for a builder that
\* still exists, finds the Secret.
StatefulSetWritten ==
  /\ api'["sts"] # None /\ api'["sts"] # api["sts"]
  /\ api["builder"] # None /\ api["builder"].uid = api'["sts"].owner

CertBeforePod ==
  [][StatefulSetWritten /\ api'["sts"].pod.tls => api["secret"] # None]_vars

\* It does not hold of the code: the Secret may be gone while the cache of the
\* Secrets still shows it, or go with an earlier builder of the name.  What
\* holds is that nobody has overlooked it.  The worker is past
\* ensureBuilderServerCert without a certificate for the host in hand only
\* while an event of the Secret is on its way to the queue, or already there.
SecretEventDue == queued \/ "secret" \in lag

CertInPlace(host) == api["secret"] # None /\ api["secret"].host = host

CertNoticed ==
  pc \in {"route", "pvc", "sts", "status"} /\ exposureEnabled(b.spec)
    => CertInPlace(b.spec.exposure.host) \/ SecretEventDue

\* A StatefulSet that mounts a Secret which does not exist leaves its pods
\* unable to start: when createOrUpdateStatefulSet writes one, the event that
\* will have ensureBuilderServerCert issue the certificate is due.
MissingCertNoticed ==
  [][StatefulSetWritten /\ api'["sts"].pod.tls
       => api["secret"] # None \/ SecretEventDue]_vars

\* A status is published only from the current builder, after everything it
\* advertises: the route leads to the advertised host, the StatefulSet is this
\* builder's, with the reported scale and the builder's present labels, and the
\* NodePort is that of a Service that exists.  The endpoint and the count are
\* those of the running pods unless the cache of the pods trails.  The Secret
\* it names has a certificate for that host, except that updateStatus does not
\* look: the name of one that was lost is published while the event of its loss
\* is on its way.
StatusWritten ==
  /\ api["builder"] # None /\ api'["builder"] # None
  /\ api'["builder"].status # api["builder"].status

DescribedBy(status) ==
  LET builder == api["builder"]
  IN  /\ exposureEnabled(builder.spec) =>
           /\ status.externalHost = builder.spec.exposure.host
           /\ api["route"] = [owner |-> builder.uid, host |-> status.externalHost]
      /\ ~exposureEnabled(builder.spec) =>
           status.externalHost = None /\ api["route"] = None
      /\ status.tlsSecret = exposureEnabled(builder.spec)
      /\ status.tlsSecret => CertInPlace(status.externalHost) \/ SecretEventDue
      /\ status.nodePort => api["csvc"] # None
      /\ \/ "pods" \in lag
         \/ /\ status.endpoint \in api["pods"] \cup {None}
            /\ status.phase = "Ready" => status.readyReplicas = Cardinality(api["pods"])
      /\ api["sts"] # None
      /\ api["sts"].owner = builder.uid
      /\ api["sts"].replicas = status.desiredReplicas
      /\ api["sts"].selector = labelsForBuilder(builder)

StatusDescribesCluster ==
  [][StatusWritten => DescribedBy(api'["builder"].status)]_vars

\* The comment on reconcileSleepy: scale to 0 only if there are "no active
\* builds".
ScaledDown ==
  /\ api["sts"] # None /\ api'["sts"] # None
  /\ api["sts"].replicas > 0 /\ api'["sts"].replicas = 0

ActiveBuildKeepsPods == [][ScaledDown => building = 0]_vars

-----------------------------------------------------------------------------
(* What must eventually happen.                                            *)

\* Once the users leave the builder alone its children become what it asks
\* for, and stay so.
Converges == <>[](Reconcilable => InSync)

\* Once users and faults cease, the published status is true of the pods: the
\* endpoint is a running pod's, the counts are theirs, and Ready means that.
StatusTrue ==
  LET builder == api["builder"]
      status  == builder.status
      n       == desiredReplicas(builder)
  IN  /\ status # None
      /\ status.desiredReplicas = n
      /\ status.readyReplicas = Cardinality(api["pods"])
      /\ status.phase = IF n = 0 THEN "ScalingDown" ELSE "Ready"
      /\ IF api["pods"] = {} THEN status.endpoint = None
         ELSE status.endpoint \in api["pods"]

StatusSettles == <>[](Reconcilable => StatusTrue)

\* An owned object does not outlive its builder, whatever the worker was
\* doing when the builder went.
NothingLeftBehind ==
  api["builder"] = None ~>
    (api["builder"] # None \/ \A k \in Owned : api[k] = None)

\* metadata.go counts the Services among the builder-owned objects.
ServicesCollected ==
  api["builder"] = None ~>
    (api["builder"] # None \/ \A s \in Services : api[s] = None)

\* A deleted builder with the finalizer goes, unless its template is gone.
Deleting == api["builder"] # None /\ api["builder"].deleting

DeletionCompletes ==
  Deleting ~> (~Deleting \/ Unresolvable(api["builder"].spec, api["template"]))

\* Sleepy mode: a builder idle for longer than its timeout is scaled to zero,
\* and one that was used since, or never was, gets a running pod again.
Sleepy == Reconcilable /\ api["builder"].spec.mode = "sleepy"

RecentlyUsed ==
  LET stamp == api["builder"].lastUsed
  IN  stamp = None \/ stamp \in (expired + 1)..stamps

Idle == Sleepy /\ ~RecentlyUsed

InUse == Sleepy /\ RecentlyUsed

ScalesToZero == Idle ~> (~Idle \/ api["pods"] = {})

WakesForBuild == InUse ~> (~InUse \/ api["pods"] # {})

=============================================================================
