--------------------------- MODULE DesiredObjects ---------------------------
(***************************************************************************)
(* The objects the controller writes for a builder, each abstracted to the *)
(* part of the builder and of its resolved template that it depends on.    *)
(* An object with a controller reference carries the uid of its owner, the *)
(* Services and the namespace CA have none.                                *)
(***************************************************************************)
EXTENDS SpecResolution

\* The selector and the pod labels: the mode is one of them.
labelsForBuilder(b) == [mode |-> b.spec.mode, labels |-> b.spec.labels]

\* headlessServiceForBuilder and nodePortServiceForBuilder.
serviceForBuilder(b) == [owner |-> None, selector |-> labelsForBuilder(b)]

\* buildkitd.toml is a function of the resolved text and of the exposure
\* (which adds the [grpc.tls] section).
buildkitdConfigMap(owner, b, template) ==
  [owner |-> owner, toml |-> template.set["buildkitdToml"],
   tls |-> exposureEnabled(b.spec)]

\* The server certificate: host is its SAN and its cert-host annotation.
serverCert(owner, b) == [owner |-> owner, host |-> b.spec.exposure.host]

\* caSecretName: created on demand, kept when its builders go.
namespaceCA == [owner |-> None]

ingressRouteForBuilder(b) == [owner |-> b.uid, host |-> b.spec.exposure.host]

\* Mutant: the PVC is written without a controller reference.
pvcWithoutOwner(b) == [owner |-> None]

pvcForBuilder(b) == [owner |-> b.uid]

\* The host under which an exposed builder is reachable.
externalEndpointForBuilder(b) ==
  IF exposureEnabled(b.spec) THEN b.spec.exposure.host ELSE None

\* The pod mounts the ConfigMap, the Secret and the PVC by name: it depends
\* neither on buildkitd.toml, nor on the host, nor on the settings of the PVC.
buildPodSpec(b, template) ==
  [rootless |-> template.rootless,
   set |-> [f \in Fields \ {"buildkitdToml"} |->
              IF f = "cacheConfig" /\ UsesPVC(template) THEN None
              ELSE template.set[f]],
   tls |-> exposureEnabled(b.spec),
   pvc |-> UsesPVC(template)]

statefulSetForBuilder(b, template, replicas) ==
  [owner |-> b.uid, selector |-> labelsForBuilder(b), replicas |-> replicas,
   pod |-> buildPodSpec(b, template)]

-----------------------------------------------------------------------------
(* The types of these objects, for owners in the set Uids.                 *)

Labels == [mode: {"persistent", "sleepy"}, labels: LabelSets]

PodSpec ==
  [rootless: BOOLEAN, set: [Fields \ {"buildkitdToml"} -> Settings \cup {None}],
   tls: BOOLEAN, pvc: BOOLEAN]

ConfigMapObject(Uids) == [owner: Uids, toml: Settings \cup {None}, tls: BOOLEAN]
ServiceObject == [owner: {None}, selector: Labels]

HostObject(Uids) == [owner: Uids, host: Hosts]
PVCObject(Uids) == [owner: Uids]
StatefulSetObject(Uids) ==
  [owner: Uids, selector: Labels, replicas: Nat, pod: PodSpec]

\* NotFound is not an object.
ASSUME NotFoundAssumption ==
  /\ None \notin ServiceObject /\ None \notin PVCObject(Nat)
  /\ None \notin StatefulSetObject(Nat) /\ None \notin HostObject(Nat)

=============================================================================
