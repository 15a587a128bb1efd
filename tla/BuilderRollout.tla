---------------------------- MODULE BuilderRollout ----------------------------
(***************************************************************************)
(* The way of a template and a builder from their manifests to a running   *)
(* pod: admission, the writes of a reconcile, and the pod that is started  *)
(* from what was written.                                                  *)
(*                                                                         *)
(* BuilderController has the failures of this path; here caches are        *)
(* current, the objects have their content, and a call fails only when the *)
(* API server refuses what it is given.  The pod is that of a builder that *)
(* is scaled to one.                                                       *)
(***************************************************************************)
EXTENDS Admission

CONSTANTS
  Manifests,  \* pairs of a template's manifest, or None, and a builder's
  Exposures,  \* the exposure sections users edit a builder to
  OtherNames, \* names of other builders of the namespace
  Unfit,      \* words the API server refuses to store, and hosts no
              \* certificate can be issued for
  MaxEdits    \* bound: edits of the exposure

ASSUME RolloutAssumption ==
  /\ OptionalFields \ {"resources", "tolerations", "affinity"} \subseteq Fields
  /\ MaxEdits \in Nat

\* The objects the API server stores, and the pods it is given.
LabelKeys == {LabelKeyBuilderName, LabelKeyBuilderMode} \cup UNION {DOMAIN l : l \in LabelSets}

TemplateObject == [rootless: BOOLEAN, set: [Fields -> Seq(STRING) \cup {None}]]

BuilderObject ==
  [name: Seq(STRING), templateName: Seq(STRING) \cup {None},
   spec: [mode: {"persistent", "sleepy"}, replicas: Int, idleTimeoutSeconds: Int,
          labels: LabelSets, exposure: ExposureManifest \cup {None},
          templateRef: BOOLEAN, template: TemplateObject \cup {None}]]

Paths == {"/etc/buildkit", "/etc/buildkit-tls", "/etc/buildkit/s3-creds",
          "/home/user/.local/share/buildkit", "/var/lib/buildkit"}

PodObject ==
  [image: Seq(STRING) \cup {None}, nonRoot: BOOLEAN, arch: STRING \cup {None},
   volumes: SUBSET [kind: {"ConfigMap", "Secret", "PersistentVolumeClaim", "EmptyDir"},
                    name: Seq(STRING), path: Paths]]

StatefulSetObject(keys) == [labels: [keys -> Seq(STRING)], pod: PodObject]

Kinds == {"ConfigMap", "Secret", "Service", "PersistentVolumeClaim", "StatefulSet",
          "IngressRouteTCP"}

\* A pod and the files its daemon has read, which are None until it starts.
RunningPod ==
  [spec: PodObject, toml: Seq(STRING) \cup {None}, cert: Hosts \cup {None}]

IsManifest(m) ==
  /\ m = [template |-> m.template, builder |-> m.builder]
  /\ m.template # None => TemplateManifest(m.template)
  /\ BuilderManifest(m.builder)

\* The words of the code itself are strings, which the provers do not know.
ASSUME LiteralsAssumption ==
  /\ {"traefik", "websecure", "persistent", "sleepy"} \subseteq STRING
  /\ {RootlessImage[1], RootImage[1]} \subseteq STRING
  /\ {"builder", "buildkitd", "cache", "tls", "client", "builderhub", "ca"} \subseteq STRING
  /\ {"[grpc]", "[grpc.tls]", "[worker.oci]"} \subseteq STRING
  /\ {"address tcp 1234", "mounted certificates"} \subseteq STRING

\* Settings and labels are words; a cacheConfig of type pvc is one with its
\* section; NotFound is none of all this.
ASSUME ManifestAssumption ==
  /\ None \notin Manifests /\ \A m \in Manifests : IsManifest(m)
  /\ Exposures \subseteq ExposureManifest \cup {None}
  /\ Settings \subseteq Seq(STRING)
  /\ PVCSettings = {c \in Settings : Len(c) > 1 /\ c[1] = "pvc"}
  /\ \A l \in LabelSets : DOMAIN l \subseteq STRING /\ l \in [DOMAIN l -> Seq(STRING)]
  /\ OtherNames \subseteq Seq(STRING)
  /\ None \notin Seq(STRING) /\ None \notin STRING /\ None \notin BOOLEAN
  /\ None \notin ExposureManifest /\ None \notin Unfit
  /\ None \notin TemplateObject /\ None \notin BuilderObject
  /\ None \notin [builder: BuilderObject, template: TemplateObject]
  /\ \A keys \in SUBSET LabelKeys : None \notin StatefulSetObject(keys)

VARIABLES
  manifest,  \* what the user applied, None before
  template,  \* the stored template, or None
  builder,   \* the stored builder, or None
  queued,    \* the builder's key is in the work queue
  pc,        \* what the worker does next
  work,      \* its copy of the builder, with the resolved template
  outcome,   \* "written" or "error" once a reconcile of this builder ended
  objects,   \* the kinds and names of the objects it has written
  config,    \* buildkitd.toml in the ConfigMap
  cert,      \* the host of the certificate in the Secret, or None
  sts,       \* the StatefulSet: pod labels and pod spec, or None
  pod,       \* the running pod and the files it was started with, or None
  edits,
  calm       \* each edit so far found the pod serving what the builder asked for

input == <<manifest, template, builder, edits, calm>>
worker == <<queued, pc, work, outcome>>
written == <<objects, config, cert, sts>>
vars == <<input, worker, written, pod>>

Init ==
  /\ manifest = None /\ template = None /\ builder = None /\ edits = 0 /\ calm = TRUE
  /\ queued = FALSE /\ pc = "idle" /\ work = None /\ outcome = "none"
  /\ objects = {} /\ config = None /\ cert = None /\ sts = None
  /\ pod = None

-----------------------------------------------------------------------------
(* The pod.                                                                *)

\* The last reconcile finished, and nobody has edited the builder since.
Settled == outcome = "written"

Exposed == exposureEnabled(builder.spec)

\* The daemon has started and answers the probe.
Ready(p) ==
  p.toml # None /\ Starts(p.toml, p.spec) /\ Says(p.toml, "[grpc]", "address tcp 1234")

\* An exposed builder's pod serves TLS with a certificate for its host, and one
\* that is not exposed serves without.
PodServes ==
  /\ pod # None /\ Ready(pod)
  /\ UsesTls(pod.toml) = Exposed
  /\ Exposed => pod.cert = builder.spec.exposure.host

-----------------------------------------------------------------------------
(* Users.                                                                  *)

Apply(m) ==
  /\ manifest = None /\ manifest' = m
  /\ m.template # None => TemplateAccepted(m.template)
  /\ BuilderAccepted(m.builder)
  /\ template' = IF m.template = None THEN None ELSE StoredTemplate(m.template)
  /\ builder' = StoredBuilder(m.builder)
  /\ queued' = TRUE
  /\ UNCHANGED <<pc, work, outcome, written, pod, edits, calm>>

EditExposure(e) ==
  /\ builder # None /\ e # builder.spec.exposure
  /\ edits < MaxEdits /\ edits' = edits + 1
  /\ builder' = [builder EXCEPT !.spec.exposure = e]
  /\ calm' = (calm /\ Settled /\ PodServes /\ pod.spec = sts.pod)
  /\ queued' = TRUE /\ outcome' = "none"
  /\ UNCHANGED <<manifest, template, pc, work, written, pod>>

-----------------------------------------------------------------------------
(* What the API server, or x509, refuses although schema and webhook do    *)
(* not look at it.                                                         *)

Fit(words) == ToSet(words) \cap Unfit = {}

\* A Service's name is a DNS label of 63 characters at most; the keys of its
\* selector are label keys, and the values have no more characters either.
ServicesFit(b) ==
  LET labels == labelsForBuilder(b)
  IN  Fit(b.name) /\ \A k \in DOMAIN labels : k \notin Unfit /\ Fit(labels[k])

\* A host that is not ASCII cannot be written into a certificate.
HostFits(b) == b.spec.exposure.host \notin Unfit

\* The size of a claim is a quantity above zero.
ClaimFits(t) == ~SizeUnparsable(t) /\ Fit(t.set["cacheConfig"])

\* A StatefulSet has no negative number of replicas, its container an image, its
\* node selector label values, and what else the template sets is valid.
PodFits(b, t) ==
  LET new == buildPodSpec(b, t)
  IN  /\ new.image # None /\ new.arch \notin Unfit
      /\ \A v \in new.volumes : Fit(v.name)
      /\ \A f \in Fields \ {"arch", "cacheConfig", "buildkitdToml"} :
           t.set[f] # None => Fit(t.set[f])
      /\ b.spec.mode = "persistent" => b.spec.replicas >= 0

\* The API server takes all that is written for a builder.
Writable(b, t) ==
  /\ ServicesFit(b)
  /\ exposureEnabled(b.spec) => HostFits(b)
  /\ UsesPVC(t) => ClaimFits(t)
  /\ PodFits(b, t)

-----------------------------------------------------------------------------
(* Reconcile.                                                              *)

\* The template's name is <<"t">>.
TemplateOf(b) == IF b.templateName = <<"t">> THEN template ELSE None

Continue(next) == pc' = next /\ UNCHANGED <<queued, work, outcome>>

\* A reconcile ends; its outcome counts unless the builder has changed since.
\* The retries of an error end the same way as long as it has not.
End(how) ==
  /\ pc' = "idle" /\ work' = None
  /\ outcome' = IF queued' THEN "none" ELSE how

BeginReconcile ==
  /\ pc = "idle" /\ queued /\ queued' = FALSE
  /\ IF Unresolvable(builder.spec, TemplateOf(builder))
     THEN End("error")
     ELSE /\ pc' = "config" /\ UNCHANGED outcome
          /\ work' = [builder |-> builder,
                      template |-> resolveSpec(builder.spec, TemplateOf(builder))]
  /\ UNCHANGED <<written, input, pod>>

\* Mutant: the ConfigMap is written only for a buildkitd.toml of the user's.
ensureBuildkitdConfigMapIfCustom ==
  /\ pc = "config" /\ Continue("services")
  /\ LET text == work.template.set["buildkitdToml"]
     IN  config' = IF text = None THEN config
                   ELSE buildkitdToml(text, exposureEnabled(work.builder.spec))
  /\ UNCHANGED <<objects, cert, sts, input, pod>>

\* The name of a ConfigMap may be longer than a Service's, but not much.
ensureBuildkitdConfigMap ==
  /\ pc = "config"
  /\ \/ /\ Continue("services")
        /\ config' = buildkitdToml(work.template.set["buildkitdToml"],
                                   exposureEnabled(work.builder.spec))
        /\ objects' = objects \cup {ConfigMap(work.builder)}
     \/ /\ ~Fit(work.builder.name)
        /\ UNCHANGED <<config, objects, queued>> /\ End("error")
  /\ UNCHANGED <<cert, sts, input, pod>>

\* The headless Service is written first; its name may fit when the other's,
\* with -client behind it, is too long.
createOrUpdateServices ==
  /\ pc = "services"
  /\ LET b == work.builder
     IN  \/ /\ ServicesFit(b) /\ Continue("exposure")
            /\ objects' = objects \cup Services(b)
         \/ /\ ~ServicesFit(b) /\ UNCHANGED queued /\ End("error")
            /\ \/ UNCHANGED objects
               \/ /\ ~Fit(b.name)
                  /\ objects' = objects \cup {Object("Service", headlessName(b))}
  /\ UNCHANGED <<config, cert, sts, input, pod>>

reconcileExposure ==
  /\ pc = "exposure"
  /\ LET b    == work.builder
         next == IF UsesPVC(work.template) THEN "pvc" ELSE "workload"
     IN  \/ /\ ~exposureEnabled(b.spec)
            /\ cert' = None /\ objects' = objects \ ExposureParts(b)
            /\ Continue(next)
         \/ /\ exposureEnabled(b.spec)
            /\ \/ b.spec.exposure.host = None
               \/ b.spec.exposure.ingressController \notin {None, "traefik"}
            /\ UNCHANGED <<cert, objects, queued>> /\ End("error")
         \/ /\ exposureEnabled(b.spec)
            /\ b.spec.exposure.host # None
            /\ b.spec.exposure.ingressController \in {None, "traefik"}
            /\ HostFits(b)
            /\ cert' = b.spec.exposure.host
            /\ objects' = objects \cup ExposureParts(b)
                            \cup {Object("Secret", caSecretName)}
            /\ Continue(next)
         \/ /\ exposureEnabled(b.spec)
            /\ b.spec.exposure.host # None
            /\ b.spec.exposure.ingressController \in {None, "traefik"}
            /\ ~HostFits(b)
            /\ objects' = objects \cup {Object("Secret", caSecretName)}
            /\ UNCHANGED <<cert, queued>> /\ End("error")
  /\ UNCHANGED <<config, sts, input, pod>>

\* Mutant: an existing StatefulSet is left alone, as an existing PVC is.
createStatefulSetOnce ==
  /\ pc = "workload" /\ UNCHANGED queued /\ End("written")
  /\ objects' = objects \cup {Workload(work.builder)}
  /\ sts' = IF sts # None THEN sts
            ELSE [labels |-> labelsForBuilder(work.builder),
                  pod |-> buildPodSpec(work.builder, work.template)]
  /\ UNCHANGED <<config, cert, input, pod>>

\* A panic of MustParse is recovered from and returned as an error.
createOrUpdatePVC ==
  /\ pc = "pvc" /\ UNCHANGED queued
  /\ \/ ~ClaimFits(work.template) /\ End("error") /\ UNCHANGED objects
     \/ /\ ClaimFits(work.template) /\ Continue("workload")
        /\ objects' = objects \cup {Claim(work.builder)}
  /\ UNCHANGED <<config, cert, sts, input, pod>>

createOrUpdateStatefulSet ==
  /\ pc = "workload" /\ UNCHANGED queued
  /\ LET b == work.builder
         t == work.template
     IN  \/ ~PodFits(b, t) /\ End("error") /\ UNCHANGED <<objects, sts>>
         \/ /\ PodFits(b, t) /\ End("written")
            /\ objects' = objects \cup {Workload(b)}
            /\ sts' = [labels |-> labelsForBuilder(b), pod |-> buildPodSpec(b, t)]
  /\ UNCHANGED <<config, cert, input, pod>>

Reconcile ==
  \/ BeginReconcile \/ ensureBuildkitdConfigMap \/ createOrUpdateServices
  \/ reconcileExposure \/ createOrUpdatePVC \/ createOrUpdateStatefulSet

-----------------------------------------------------------------------------
(* The StatefulSet controller and the kubelet.                             *)

\* What a pod mounts exists; the credentials of S3 are the user's affair.
Mountable(p) ==
  \A v \in p.volumes :
    v.kind = "EmptyDir" \/ v.path = "/etc/buildkit/s3-creds"
      \/ Object(v.kind, v.name) \in objects

\* buildkitd reads its files when it starts, and not again.
Started(spec) ==
  [spec |-> spec, toml |-> config, cert |-> IF MountsTls(spec) THEN cert ELSE None]

\* The StatefulSet controller creates the pod that is missing.
PodCreated ==
  /\ pod = None /\ sts # None
  /\ pod' = [spec |-> sts.pod, toml |-> None, cert |-> None]
  /\ UNCHANGED <<input, worker, written>>

PodStarts ==
  /\ pod # None /\ pod.toml = None /\ Mountable(pod.spec)
  /\ pod' = Started(pod.spec)
  /\ UNCHANGED <<input, worker, written>>

\* A rolling update replaces a pod whose spec is not the template's, but waits
\* for it to be ready: the StatefulSet is OrderedReady.
PodRolls ==
  /\ pod # None /\ Ready(pod) /\ pod.spec # sts.pod
  /\ pod' = None
  /\ UNCHANGED <<input, worker, written>>

\* A daemon that fails, or does not answer the probe, is started again.
ContainerRestarts ==
  /\ pod # None /\ pod.toml # None /\ ~Ready(pod)
  /\ pod' = Started(pod.spec)
  /\ UNCHANGED <<input, worker, written>>

Next ==
  \/ \E m \in Manifests : Apply(m)
  \/ \E e \in Exposures : EditExposure(e)
  \/ Reconcile
  \/ PodCreated \/ PodStarts \/ PodRolls \/ ContainerRestarts

Spec == Init /\ [][Next]_vars

FairSpec ==
  /\ Spec
  /\ WF_vars(Reconcile)
  /\ WF_vars(PodCreated) /\ WF_vars(PodStarts)
  /\ WF_vars(PodRolls) /\ WF_vars(ContainerRestarts)

-----------------------------------------------------------------------------
(* The builder as it is, resolved against its template.                    *)

Resolved == resolveSpec(builder.spec, TemplateOf(builder))

TypesOK ==
  /\ template \in TemplateObject \cup {None} /\ builder \in BuilderObject \cup {None}
  /\ edits \in 0 .. MaxEdits /\ calm \in BOOLEAN
  /\ work \in [builder: BuilderObject, template: TemplateObject] \cup {None}
  /\ objects \subseteq [kind: Kinds, name: Seq(STRING)]
  /\ config \in Seq(STRING) \cup {None} /\ cert \in Hosts \cup {None}
  /\ sts # None => \E keys \in SUBSET LabelKeys : sts \in StatefulSetObject(keys)
  /\ pod \in RunningPod \cup {None}

NothingDangles ==
  /\ pc \in {"idle", "config", "services", "exposure", "pvc", "workload"}
  /\ outcome \in {"none", "error", "written"} /\ queued \in BOOLEAN
  /\ pc # "idle" => work # None /\ work.builder.name = builder.name
  /\ builder = None => ~queued /\ pc = "idle" /\ objects = {}
  /\ sts # None => config # None /\ Workload(builder) \in objects
  /\ pod # None => sts # None

\* What is stored, the worker's copy of it, and all that has been written and
\* started are of the types the API server keeps; a StatefulSet has its
\* ConfigMap, a pod its StatefulSet, and without a builder there is nothing.
RolloutTypeOK == TypesOK /\ NothingDangles

-----------------------------------------------------------------------------
(* Three places decide what a builder may be and what its absent fields    *)
(* mean: the schema, the webhooks and the controller.                      *)

\* Reconcile finishes for exactly the builders the webhook accepts, whose
\* template exists, and whose objects the API server takes.
SameVerdict ==
  outcome # "none" =>
    (Settled <=>
       /\ validateBuilder(builder)
       /\ ~Unresolvable(builder.spec, TemplateOf(builder))
       /\ Writable(builder, Resolved))

\* Whichever of the schema, the webhook and the controller fills in an absent
\* field of a builder, the controller works with the same value.  The image of
\* a template is the one exception: the schema has it rootless whatever the
\* template is, and leaves an empty one alone.
ImagesAgree(m) ==
  StoredTemplate(m).set["buildkitImage"] =
    DefaultTemplate(UndefaultedTemplate(m)).set["buildkitImage"]

DefaultsAgree ==
  manifest # None =>
    /\ Effective(StoredBuilder(manifest.builder)) = Effective(manifest.builder)
    /\ Effective(DefaultBuilder(manifest.builder)) = Effective(manifest.builder)
    /\ manifest.template # None =>
         LET m == manifest.template
         IN  ImagesAgree(m) <=>
               IF "buildkitImage" \in DOMAIN m.set THEN m.set["buildkitImage"] # None
               ELSE m.rootless = TRUE

\* "PVC if cacheConfig.type == pvc", for templates the webhook accepts: those
\* without a pvc section get an emptyDir, as does an inline template, which no
\* webhook looks into.
PvcIsMounted ==
  Settled /\ template # None /\ builder.spec.template = None /\ validateTemplate(template) =>
    (template.set["cacheConfig"][1] = "pvc" <=>
       \E v \in sts.pod.volumes : v.kind = "PersistentVolumeClaim")

\* What an inline template does to the template it overrides: the settings it
\* names win and others are kept, except that rootless and the image fall back
\* to the schema's defaults.
OverrideExact ==
  Settled /\ builder.spec.templateRef /\ builder.spec.template # None =>
    LET inline == manifest.builder.spec.template
        named  == {f \in DOMAIN inline.set : inline.set[f] # None}
    IN  /\ \A f \in named : Resolved.set[f] = inline.set[f]
        /\ \A f \in Fields \ (named \cup {"buildkitImage"}) :
             Resolved.set[f] = template.set[f]
        /\ "buildkitImage" \notin DOMAIN inline.set => Resolved.set["buildkitImage"] = RootlessImage
        /\ Resolved.rootless = (inline.rootless # FALSE)

-----------------------------------------------------------------------------
(* The ConfigMap, the Secret, the volumes and the pod are written by       *)
(* different code and have to fit together.                                *)

HasTcp(text) == ToSet(text) \cap TcpLines # {}

HasTls(text) == ToSet(text) \cap TlsLines # {}

\* The texts of buildkitd.toml the operator can complete: one that has tcp://
\* has the listener itself, one that has not leaves [grpc] and any top-level
\* address alone; for an exposed builder, one that has [grpc.tls] anywhere, in
\* a comment too, has the table with the mounted certificates, and for one that
\* is not exposed there is no such table.
Compatible(text) ==
  \/ text = None
  \/ /\ WellFormed(text)
     /\ IF HasTcp(text) THEN Says(text, "[grpc]", "address tcp 1234")
        ELSE /\ ~Contains(text, "[grpc]")
             /\ \A i \in DOMAIN text : Key(text[i]) = "address" => TableAt(text, i) # "top"
     /\ IF Exposed THEN HasTls(text) => UsesTls(text)
        ELSE ~UsesTls(text)

\* The texts no setting of which changes its table.
Undisturbed(text) ==
  HasTcp(text) \/ \A i \in DOMAIN text : TableAt(text, i) # "top"

\* The generated file starts buildkitd with the listener the Services and
\* probes expect, with TLS just when the builder is exposed, exactly for the
\* compatible texts; and it keeps exactly the undisturbed ones.
TomlExact ==
  Settled =>
    LET text == Resolved.set["buildkitdToml"]
    IN  /\ Serves(config, sts.pod, Exposed) <=> Compatible(text)
        /\ text # None =>
             ((\A i \in DOMAIN text : Says(config, TableAt(text, i), text[i]))
                <=> Undisturbed(text))

\* The pod that will be started finds every object it mounts, under the name
\* it was created with, and the certificate is for the builder's host.
MountsExist ==
  Settled =>
    /\ Mountable(sts.pod)
    /\ MountsTls(sts.pod) = Exposed
    /\ cert = IF Exposed THEN builder.spec.exposure.host ELSE None

-----------------------------------------------------------------------------
(* Other builders of the namespace.                                        *)

\* Any other builder, with any labels.
Other(n, labels) == [name |-> n, spec |-> [builder.spec EXCEPT !.labels = labels]]

\* Two builders share an object just when one is named like the other with
\* -client behind it: the NodePort Service of the one is the headless Service
\* of the other.
NamesApart ==
  builder # None =>
    /\ Cardinality(ObjectsOf(builder)) = 7
    /\ \A n \in OtherNames \ {builder.name} :
         ObjectsOf(builder) \cap ObjectsOf(Other(n, <<>>)) =
           CASE n = builder.name \o <<"client">> -> {Object("Service", clientName(builder))}
             [] builder.name = n \o <<"client">> -> {Object("Service", headlessName(builder))}
             [] OTHER -> {}

\* The name a builder's pods go by: a label of the user's under the operator's
\* key wins over the builder's own.
PodsAre(b) ==
  LET labels == b.spec.labels
  IN  IF LabelKeyBuilderName \in DOMAIN labels /\ validLabelValue(labels[LabelKeyBuilderName])
      THEN labels[LabelKeyBuilderName] ELSE b.name

\* The endpoint is looked up among the pods that go by the builder's name, its
\* own or another's; and its Services lead to another builder's pods only when
\* both builders' pods go by the same name, which takes a label of one of them.
SelectorsApart ==
  Settled =>
    /\ Selects(EndpointSelector(builder), sts.labels) <=> PodsAre(builder) = builder.name
    /\ \A n \in OtherNames \ {builder.name}, labels \in LabelSets :
         LET other == Other(n, labels)
         IN  /\ Selects(EndpointSelector(builder), labelsForBuilder(other))
                  <=> PodsAre(other) = builder.name
             /\ Selects(sts.labels, labelsForBuilder(other)) =>
                  /\ PodsAre(other) = PodsAre(builder)
                  /\ PodsAre(other) # n \/ PodsAre(builder) # builder.name

-----------------------------------------------------------------------------
(* Why these hold: what the worker has written when it is at a call, and   *)
(* in the end, for its copy of the builder.                                *)

HasController(exposure) ==
  exposure.host # None /\ exposure.ingressController \in {None, "traefik"}

ConfigDone(b, t) ==
  /\ config = buildkitdToml(t.set["buildkitdToml"], exposureEnabled(b.spec))
  /\ ConfigMap(b) \in objects

ExposureDone(b) ==
  /\ cert = IF exposureEnabled(b.spec) THEN b.spec.exposure.host ELSE None
  /\ exposureEnabled(b.spec) =>
       /\ HasController(b.spec.exposure) /\ HostFits(b)
       /\ ExposureParts(b) \subseteq objects

ClaimDone(b, t) == UsesPVC(t) => ClaimFits(t) /\ Claim(b) \in objects

WorkloadDone(b, t) ==
  /\ sts = [labels |-> labelsForBuilder(b), pod |-> buildPodSpec(b, t)]
  /\ PodFits(b, t)

Progress(b, t, at) ==
  /\ at # "config" => ConfigDone(b, t)
  /\ at \in {"exposure", "pvc", "workload", "idle"} => ServicesFit(b)
  /\ at = "pvc" => UsesPVC(t)
  /\ at \in {"pvc", "workload", "idle"} => ExposureDone(b)
  /\ at \in {"workload", "idle"} => ClaimDone(b, t)
  /\ at = "idle" => WorkloadDone(b, t)

\* What is stored comes from the manifest, with the exposure it was edited to.
FromManifest ==
  /\ builder = None => manifest = None /\ template = None
  /\ builder # None =>
       /\ manifest # None /\ IsManifest(manifest) /\ builder \in BuilderObject
       /\ template = IF manifest.template = None THEN None
                     ELSE StoredTemplate(manifest.template)
       /\ manifest.template # None => TemplateAccepted(manifest.template)
       /\ LET m == manifest.builder
          IN  /\ builder.name = m.name /\ builder.templateName = m.templateName
              /\ builder.spec.templateRef = m.spec.templateRef
              /\ builder.spec.template = IF m.spec.template = None THEN None
                                         ELSE StoredTemplate(m.spec.template)

\* The worker's copy is the builder unless its key is queued again; the name and
\* the template cannot have changed.
WorkInHand ==
  pc # "idle" =>
    /\ ~Unresolvable(builder.spec, TemplateOf(builder))
    /\ work.builder \in BuilderObject /\ work.builder.name = builder.name
    /\ work.template = Resolved
    /\ queued \/ work.builder = builder
    /\ Progress(work.builder, work.template, pc)

\* An outcome is that of the builder as it is.
Outcomes ==
  /\ outcome # "none" => builder # None /\ pc = "idle" /\ ~queued
  /\ Settled => /\ ~Unresolvable(builder.spec, TemplateOf(builder))
                /\ Progress(builder, Resolved, "idle")
  /\ outcome = "error" =>
       \/ Unresolvable(builder.spec, TemplateOf(builder))
       \/ Exposed /\ ~HasController(builder.spec.exposure)
       \/ ~Writable(builder, Resolved)

RolloutInv == NothingDangles /\ FromManifest /\ WorkInHand /\ Outcomes

-----------------------------------------------------------------------------

\* What an edit that came too early can leave: a pod that never was ready, from
\* before the StatefulSet was written and not replaced by it, or a ready one of
\* the right spec that has read the files of another exposure.
PodLeftBehind ==
  /\ pod # None
  /\ \/ ~Ready(pod) /\ pod.spec # sts.pod
     \/ Ready(pod) /\ pod.spec = sts.pod /\ pod # Started(pod.spec)

\* In the end the pod serves what the builder asks for, for every text the
\* operator can complete, as long as each edit found it serving what was asked
\* for before; an edit that did not may leave the pod behind.
PodFollowsExposure ==
  <>[](Settled /\ Compatible(Resolved.set["buildkitdToml"]) =>
         PodServes \/ (~calm /\ PodLeftBehind))

=============================================================================
