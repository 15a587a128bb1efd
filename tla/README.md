# Verification of build-operator

TLA+ models of the BuildKit builder operator, the TLC runs that check them on
small instances, and theorems about them that TLAPS proves. Source paths are
relative to the repository root (`src/` in `PROJECT.json`).

## 1. The system

The operator reconciles `BuildkitBuilder` objects into a buildkitd StatefulSet
with its Services, ConfigMap, cache volume and, for exposed builders, a TLS
certificate and a Traefik route. A *persistent* builder always runs; a *sleepy*
one is scaled between 0 and 1 by an annotation that the BuilderHub API stamps
when a build starts.

| component | source | state it keeps | operations |
|---|---|---|---|
| Reconcile loop | `internal/controller/buildkitbuilder_controller.go`, `helpers.go` | none between reconciles; during one, the copy of the builder and the resolved template | `Reconcile`, `reconcilePersistent`, `reconcileSleepy`, `reconcileDelete`, create-or-update helpers, status updates |
| Template resolution | `resolveSpec`, `mergeSpec` | – | merge of the named template and the inline one |
| Object construction | `helpers.go`, `ingress.go`, `buildPodSpec`, `labelsForBuilder` | – | one pure function per object |
| Exposure | `ingress.go` | the IngressRouteTCP | `reconcileExposure` and its create, update, delete |
| TLS | `tls.go` | the namespace CA Secret, one certificate Secret per exposed builder | `ensureNamespaceCA`, `ensureBuilderServerCert`, `deleteBuilderServerCert` |
| Watches and queue | `SetupWithManager`, controller-runtime | informer caches, work queue with delayed additions | events, requeues, back-off |
| Manager | `cmd/main.go` | the leader lease | start, restart |
| Admission webhooks | `api/**/*_webhook.go` | – | defaulting and validation (registered nowhere) |
| Rendering | `buildPodSpec`, `labelsForBuilder`, `ensureBuildkitdConfigMap` | – | names, labels, pod and `buildkitd.toml` |

Every interaction goes through the API server: users and BuilderHub write the
builder and its template, the controller writes the children, the StatefulSet
controller runs pods, the garbage collector removes objects whose owner is gone.
The controller reads typed objects from informer caches that trail the API
server, and is woken by events of the objects it owns, by `RequeueAfter`, by the
retry of an error and by the periodic resync. The Services, the ConfigMap's
edits, the route, the template and the CA wake it never.

What is hard here: a reconcile is a dozen separate API calls, any of which may
fail (applied or not), and everything around it moves meanwhile; reads are
stale; some objects trigger no event; deletion overtakes a running reconcile;
the idle timeout produces no event at all. Section 7 lists what each component
must guarantee; `PROJECT.json` lists the hazards line by line.

## 2. The modules

| module | models |
|---|---|
| `SpecResolution` | the spec and template types, `resolveSpec`, `mergeSpec`, `exposureEnabled` |
| `DesiredObjects` | the objects written for a builder, each reduced to the part of the builder and template it depends on |
| `KubeCluster` | API server with optimistic concurrency, informer caches, work queue of one key |
| `BuilderController` | the reconcile loop, one action per API call, composed with users, BuilderHub, StatefulSet controller, garbage collector and faults |
| `BuilderProperties` | the type invariant, the inductive invariant, the safety, action and liveness properties |
| `BuilderController_proofs` | the inductive invariant and what follows from it |
| `PublishedStatus_proofs` | what a published status guarantees, and `CertNoticed`, on which its Secret rests |
| `Wakeups_proofs` | no change is slept over: `NoLostWakeup` |
| `MissingCert_proofs` | a StatefulSet that mounts a Secret which is gone is noticed: `MissingCertNoticed` |
| `BuilderTLS` | the TLS Secrets of a namespace: one CA, one certificate per exposed builder, their signers and lifetimes, with trailing caches, faults and manual edits |
| `PodRendering` | extends `SpecResolution`: names, labels, pod and `buildkitd.toml` as they are built, and what buildkitd makes of its file |
| `Admission` | extends `PodRendering`: the schema of the CRDs and the two webhooks |
| `BuilderRollout` | extends `Admission`: from a manifest through the writes of a reconcile to the pod started from them |
| `BuilderTLS_proofs`, `SleepyScaling_proofs`, `BuilderRollout_proofs` | the inductive invariants of the other three state machines and what follows from them |
| `BuildkitdToml_proofs` | extends `BuilderRollout_proofs`: the generated `buildkitd.toml`, for texts of any length |
| `ScaleToZero` | abstract: what sleepy mode promises, without a clock |
| `SleepyScaling` | sleepy mode with clock, timer, skewed stamps and faults; implements `ScaleToZero` |
| `MCBuilderController`, `MCBuilderTLS`, `MCBuilderRollout`, `MCSleepyScaling` | the small instances of the runs |

There are four state machines. `BuilderController` has every call of a reconcile
and every way it can fail, with objects reduced to what they depend on. The other
three each open one thing it abstracts: `BuilderTLS` the certificate (there a
host), `BuilderRollout` the content of the objects (there records of their
inputs), `SleepyScaling` the time (there one bit per stamp). They keep of the
reconcile only the calls their subject takes part in.

State of `KubeCluster`: `api[n]` is the object the API server stores under the
role `n` (builder, template, cm, hsvc, csvc, ca, secret, route, pvc, sts, pods),
`seen[n]` the informer's copy, `lag` the roles whose informer is behind, `queued`
and `delayed` the two places of the work queue. Resource versions are not counted:
a cached copy has the current version unless its role is in `lag`, and the
worker's copy of the builder has it while `inhand = "current"`, so an update with
an outdated copy is refused as a conflict. `BuilderController` adds the worker
(`pc`, `b`, `spec`, `desired`) and the environment's counters.

`pc` names the next API call, in the order of `reconcilePersistent` and
`reconcileSleepy`, which do the same up to the last two calls:

    cm -> hsvc -> csvc -+-> ca -> secret -> route -+-> (pvc ->) sts -> status
                        +-> delroute -> delsecret -+
    finalize  (a builder being deleted)

Each action is a whole handler: the cached read, the branch, the call, and the
ways it can end (success, refusal by the API server, and an error that may or may
not have been applied). A mutated form of an operator, introduced by a comment
"Mutant", stands before some definitions: it is used by no specification, only by
the mutation checks of `PROJECT.json`.

### The other state machines

`BuilderTLS`: `api` and `seen` are the Secrets stored and cached, `queue` the
builders waiting for the one worker, `pc` the next call (`delete`, or `ca` then
`cert`), `signer` the CA that `ensureNamespaceCA` returned. A CA is its key, a
certificate is its host, its signer, the time it has left and whether its PEM
parses. `EditSecret` is a user who deletes, damages or replaces a Secret by hand.
`failing` holds the builders whose reconcile returns an error before it reaches
`tls.go` (no template, a ConfigMap or Service that is refused), which `TakeAway` and
`GiveBack` change at any step, and `hindered` the units of time for which a builder
has been held up in a row, by that or by a CA that cannot be read.

`BuilderRollout`: `manifest` is what the user applied; `template` and `builder`
are what the API server stores after the schema's defaults; `objects`, `config`,
`cert` and `sts` are what a reconcile has written; `pod` is the running pod with
the files it was started with. Nothing fails except what the input makes fail: the
API server, or `x509`, refuses what is in the set `Unfit` (a label key that is none, a
value over 63 characters, a name that is no DNS label, a host that is not ASCII), a
size that is no quantity above zero, an empty image and a negative number of replicas
(`ServicesFit`, `HostFits`, `ClaimFits`, `PodFits`), none of which the schema or a
webhook looks at. `calm` says that every edit so far found the pod serving.
A name is a sequence of words, `buildkitd.toml` a sequence of lines, and the
instance has every text of up to three of ten lines.

`SleepyScaling`: `age[n]` is the age of stamp `n` by the controller's clock,
negative when BuilderHub's clock is ahead; `timer` the time until `RequeueAfter`
falls due. `Tick` is a unit of time.

### Abstractions of `BuilderController`

* One namespace, one builder name and one template name. Builders of that name
  may be created one after the other (`uid`).
* Template fields are uninterpreted settings; the instances tell apart
  `buildkitdToml` and `cacheConfig`. The branches on an unknown mode and an
  unsupported ingress controller are left out: the CRD's enumerations exclude
  them. Labels with an invalid value are filtered before the model starts.
* Time: a stamp is *expired* or not. The clock advances by expiring stamps in
  order, so `idleTimeoutSeconds` is fixed per builder; a stamp of 0 is one that
  `time.Parse` rejects. `SleepyScaling` has the clock.
* `BeginReconcile` reads the builder and its template in one step. Reads from
  caches that do not trail, and live reads of the route, happen in the step of
  the call that follows them.
* A cache catches up with the latest version, skipping intermediate ones.
* Pods are their addresses, all running; the StatefulSet controller changes
  their number but does not roll them when the pod template changes
  (`BuilderRollout` does). A pod starts only when what it mounts exists.
* The certificate is its host; `BuilderTLS` has the rest.
* The status keeps phase, endpoint, counts, node port, host and whether it names the
  TLS Secret, which `updateStatus` does for every exposed builder without looking at
  the Secret. Its time stamps
  matter in one way: an update may or may not produce a new version.

### Abstractions of the others

* `BuilderTLS`: a unit of time is far longer than a reconcile with its retries and
  than the informers' resync, and shorter than `renewBefore` (30 days against 10
  hours). So `Tick` waits until the worker and the caches have nothing left to do,
  and queues every builder. A builder whose reconcile fails before the TLS step, or for
  a CA that does not parse, is retried until somebody repairs it, and does not hold up
  time (`Stuck`): its certificate ages, as in the code. What is modelled is the
  certificate in the Secret; the one a running daemon serves is the one it started
  with, which `host_move` is about.
  The builder's own cache does not trail, an exposed builder has a host
  (`reconcileExposure` returns before `tls.go` otherwise), and builders are not
  deleted: their certificates would go with them.
* `SleepyScaling`: a unit of time is longer than a reconcile with its retries and
  shorter than the timer's 30 seconds. Stamps are issued in order of their times.
  A status refused because the cache has not seen the controller's own last status
  is a retry within the unit. The timeout is not edited.
* `PodRendering`: a template's setting is opened as far as code branches on it.
  `tcp://` occurs in three kinds of lines: a listener on 1234, one on another port,
  and a comment; `[grpc.tls]` in two, the table's header and a comment, since the code
  looks for both with `strings.Contains`. Other spellings of the same TOML (blanks in a
  header, inline tables, dotted keys, either text inside a string) are left out.
  buildkitd is taken to read its configuration, its certificate and
  its key when it starts and not again, to refuse TOML that defines a table or key
  twice, and to fail when a file it names is missing.
* `BuilderRollout`: the pod is that of a builder scaled to one. The StatefulSet is
  `OrderedReady` (`statefulSetForBuilder` sets no `podManagementPolicy`), so a rolling
  update replaces ready pods only (`PodRolls`); one that never becomes ready stays until
  somebody deletes it, which is not modelled, as evictions and quotas are not. Of the
  label keys and values, names and settings the instance holds valid ones and one of
  each kind that the API server refuses.
* `Admission`: the empty string is the absent value wherever the code tests for it;
  `templateRef` may be empty, absent or a name.

## 3. The runs

`tlc -workers 2 -config X.cfg M`, where M is `MCBuilderTLS` for `tls`,
`MCBuilderRollout` for `rollout` and `host_move`, `MCSleepyScaling` for `scaling`,
and `MCBuilderController` for the others.

| run | instance | states | properties |
|---|---|---|---|
| `exposure` | exposure off, on, other host; the caches of builder, Secret and pods trail; 2 edits | 1 948 000 | `NoLostWakeup`, `CertNoticed`, `StatusDescribesCluster`, `MissingCertNoticed` |
| `faults` | 2 faults anywhere, StatefulSet and CA caches trail, exposure without a host, 1 edit, 2 addresses | 367 000 | `IInv`, `ServicesBeforeStatefulSet`, `NoLostWakeup`, `CertBeforePod` |
| `lifecycle` | 2 builders in turn, with and without finalizer, template edited or deleted, resync | 74 000 | `TypeOK`, `Converges`, `NothingLeftBehind`, `DeletionCompletes` |
| `status` | both modes, 1 fault, 2 stamps, 2 addresses, deletion with the finalizer | 58 000 | `StatusSettles`, `DeletionCompletes`, `ScalesToZero`, `WakesForBuild` |
| `tls` | 2 builders, 2 hosts, validity 4 and renewal at 3 units, caches of the CA and of one certificate trail, 2 edits of exposure, 1 fault or thing taken away, 1 manual edit | 216 000 | `TLSTypeOK`, `CertInForce`, `NoCertForgotten`, `OneCA`, `CertsFollowCA` |
| `rollout` | all manifests of `MCBuilderRollout`, two edits of the exposure | 265 000 | `RolloutTypeOK`, `SameVerdict`, `DefaultsAgree`, `PvcIsMounted`, `OverrideExact`, `TomlExact`, `MountsExist`, `NamesApart`, `SelectorsApart`, `PodFollowsExposure` |
| `scaling` | timeouts of -1, 0, 1 and 4 with a timer of 3, 2 stamps up to 1 ahead of the clock, 1 annotation edit, 1 fault | 95 000 | `ScalingTypeOK`, `UpInTime`, `DownInTime`, `NotDownEarly`, `ImplementsScaleToZero` |
| `cert_before_pod` | as `exposure`, Secret cache trails | – | `CertBeforePod` fails |
| `mode_switch` | the mode is edited | – | `ScalesToZero` fails |
| `services_leak` | a builder is deleted | – | `ServicesCollected` fails |
| `active_build` | a build outlasts the timeout | – | `ActiveBuildKeepsPods` fails |
| `host_move` | the host of an exposed builder is edited | – | `PodFollowsExposure` fails |

Why the bounds are enough. Two edits give off–on–off and on–off–on–other host in
the course of one reconcile, which is what separates the cached, the held and the
stored version (three are distinguished). Two faults cover a call that was applied
but reported failed, followed by a crash before the retry. Two uids are a builder
and its successor. Two stamps give absent, fresh and expired, and a
build that starts while a reconcile works with the stamp before it; the garbled
annotation and the trailing cache of the annotation are in `scaling`. One address
suffices where no property counts pods.
`EditSpec` and `EditTemplate` between the same two objects are one action each, so
further edits only repeat. `Lagging` is chosen per run because every trailing cache
multiplies the states; each is on in the run whose hazard needs it.

In `tls` two builders are a race for the CA; a validity of 4 with renewal below 3
lets a certificate be fresh, due, held up within the grace of renewal and beyond it,
and time goes on for ever, so a certificate is renewed any number of times. Two edits
expose both builders, or expose one and move it or take it down. In `rollout` three lines are enough for a
text to have a table, something in it and something after it, and the names hold every
suffix the operator appends. Two edits of the exposure at any step give off-on-off and
on-off-on while the first pod starts. In `scaling` the timeouts lie on both sides of
0 and of the timer; ages are counted up to 8, past the longest timeout and a timer
period, and not told apart beyond. Two stamps give a stamp that arrives while a
reconcile works with the one before it.

`CHECK_DEADLOCK FALSE` where the system may come to rest: without resync nothing
has to happen once the cluster agrees with the builder. `lifecycle` has the resync
and checks deadlock.

### Fairness

`FairSpec` assumes weak fairness of the worker (`WF_vars(Reconcile)`: one goroutine
that never waits for anything but the API server), of every informer, of delayed
additions, of the resync where it is modelled, and of the StatefulSet controller
and the garbage collector as a whole. Users, builds and the clock are under no
obligation, and faults are bounded in number: the liveness properties say what
happens once faults cease. Because refusals re-queue with a delay, no strong
fairness is needed. `status` gives sleepy builders two stamps, the second while the
first is being acted on.

The other modules assume the same: the worker runs (`Reconcile`), informers catch
up (`Sync`), time passes (`Tick`), and in `BuilderRollout` pods are created, started,
restarted when they are not ready, and rolled when they are. In `tls` nothing is
assumed of a single builder, nor that what was taken away is ever given back: time
passes only when the queue holds none but stuck builders, and edits and faults, which
are bounded, are all that adds builders meanwhile.

The refinement `ImplementsScaleToZero` maps the cache to what the controller knows,
the worker's copy to its hand, and the number of stamps older than the timeout to
the last expired one, which is sound because stamps expire in the order they are
issued in. The abstract specification has weak fairness of looking again (`Take`)
and strong fairness of scaling, since a fault may end any one reconcile; the
clocked one has to produce both from its queue, its timer and its clock.

## 4. What the failing runs show

* `CertBeforePod`: exposure is switched off and on while the Secret cache trails.
  The deleted certificate is still in the cache, is judged usable (`tls.go:112`),
  and the StatefulSet is written with a volume whose Secret does not exist, against
  `ingress.go:107`. The deletion's event repairs it later: that it is always due by
  then is `MissingCertNoticed`, checked in `exposure` and proved. Until it comes a pod
  cannot start. The run `faults` checks `CertBeforePod` under faults where it holds, for
  one builder and a Secret cache that does not trail; with a second builder of the name
  it fails there too, as the Secret of the first one, for the same host, is found good
  and then collected.
* `ScalesToZero` after a mode edit: the mode is part of the StatefulSet's selector
  (`labelsForBuilder`), which is immutable, so every update is refused from then on
  and the reconcile never reaches the status. The same goes for `spec.labels`.
* `ServicesCollected`: the Services have no controller reference; they outlive the
  builder, and `Owns(&corev1.Service{})` never fires.
* `ActiveBuildKeepsPods`: the comment on `reconcileSleepy` promises to keep a
  builder with active builds; the code only knows when the last one started.
* `PodFollowsExposure` after a host edit: the Secret gets a certificate for the new
  host, the pod template does not change, so no pod is replaced, and the running
  buildkitd keeps the certificate of the old host. The same holds for an edit of
  `buildkitdToml`. Switching exposure on or off does change the template (the
  volume), and `rollout` shows when the pod follows (section 5).

One more disagreement needs no run. `README.md:53` and the comment on
`reconcileSleepy` (`buildkitbuilder_controller.go:227`) say that a builder is scaled
down when it was used *longer* ago than the timeout; `desiredReplicas` keeps it up only
while that time is *less* than the timeout, so at equality it goes down. The model does
what the code does, and `NotDownEarly` and `DownInTime` hold with that boundary.

## 5. What the passing runs of the newer modules say

* `NoCertForgotten`: a builder that neither the queue, nor a retry, nor an event still
  under way brings back to the worker has a certificate for its host that need not be
  renewed yet, or none when it is not exposed. It is what every early return of
  `reconcileExposure` and `ensureBuilderServerCert` relies on, and the heart of the next.
* `CertInForce`: the certificate in the Secret of an exposed builder does not run out,
  unless the builder's reconcile was kept from it, by an error before the TLS step or a
  CA that cannot be read, in every unit of the grace that `RenewBefore` gives (30 days
  in the code): `hindered` counts those units, and one in which the reconcile gets
  through sets it back to 0. It rests on the resync, as nothing else has an idle builder
  looked at. `CertsFollowCA`, which excuses a builder whose reconcile keeps failing
  before the TLS step: after the CA is replaced the certificates follow only
  when they are renewed for their age, up to 11 months later (`serverCertNeedsRenewal`
  does not look at the signer); in between, clients that trust the new CA are
  refused. `OneCA` and the signer part of `TLSTypeOK` are the creation race.
* `TomlExact` is an equivalence: it names exactly the texts for which the generated
  `buildkitd.toml` works, and exactly those it leaves as the user meant them. A text
  with `[grpc]` and no `tcp://` gets that table twice; one whose only `tcp://` is in a
  comment, or on another port, gets no listener on 1234; top-level keys fall into
  `[grpc]`, and a top-level address is there twice then. For an exposed builder a text
  that holds `[grpc.tls]`, if only in a comment, is given no TLS table, and the builder
  answers without TLS.
* `PodFollowsExposure`: exposure is switched up to twice, at any step. If each edit found
  the pod serving what was asked for before (`calm`), the pod serves in the end what is
  asked for now. After a hasty edit it may not, in exactly two ways (`PodLeftBehind`).
  A pod that never became ready is not replaced by the rolling update of an
  `OrderedReady` StatefulSet: it was created between the writes of ConfigMap, Secret and
  StatefulSet of two exposures, and mounts what is gone or reads a file that names a
  certificate it does not mount. Or a ready pod has read the ConfigMap of one exposure
  and matches the pod template of the next, so that nothing replaces it: switched on,
  off and on again while its first pod starts, a builder serves without TLS for good.
* `SameVerdict` is an equivalence: a reconcile finishes just when the webhook accepts the
  builder, its template exists, and the API server takes what is written (`Writable`).
  The last conjunct is what schema and webhook overlook: negative `replicas` (of a
  persistent builder; a sleepy one's are not read), label keys that are none, label
  values over 63 characters (one with other illegal characters is dropped by
  `labelsForBuilder`), names that are no DNS label, hosts that are not ASCII, sizes that
  are no quantity, which panic in `MustParse`, or not above zero, and an empty image.
* `DefaultsAgree`, `PvcIsMounted`, `OverrideExact` list the exceptions they have: the
  schema's image is rootless even for a template that is not; an inline template that
  leaves out `rootless` or the image resets the template's own to the schema's default.
* `NamesApart`, `SelectorsApart`: builders `X` and `X-client` share a Service, and
  these are the only pairs. The other builder may have any labels. The endpoint lookup
  finds exactly the pods that go by the builder's name, so builder `y` with the label
  `builder.builder-hub.dev/name: x` gives `x` its address; and the Services of `x` lead
  to pods of `y` only when both go by one name, which takes such a label of `x` or of `y`.
* `DownInTime`, `UpInTime`: the bound is the timeout plus one timer period, and a
  build that starts while the pod is being taken down has it back before time passes.

## 6. The proofs

TLAPS proves the following for every value of the constants that satisfies the
assumptions named in the modules.

| module | theorem | statement |
|---|---|---|
| `BuilderController_proofs` | `Invariant` | `Spec => []IInv` |
| | `TypeCorrect` | `Spec => []TypeOK` |
| | `ServicesFirst` | `Spec => []ServicesBeforeStatefulSet` |
| `PublishedStatus_proofs` | `WorkIsDone` | `Spec => []WorkDone` |
| | `LossIsNoticed` | `Spec => []CertNoticed` |
| | `StatusIsTrueOfCluster` | `Spec => StatusDescribesCluster` |
| `Wakeups_proofs` | `WorkStaysInSync` | `OneIncarnation => (Spec => []WakeupInv)` |
| | `WakeupIsNeverLost` | `OneIncarnation => (Spec => []NoLostWakeup)` |
| `MissingCert_proofs` | `MissingCertIsNoticed` | `Spec => MissingCertNoticed` |
| `BuilderTLS_proofs` | `TLSInvariant` | `Spec => []TLSInv` |
| | `SecretsTyped` | `Spec => []TLSTypeOK` |
| | `NamespaceHasOneCA` | `Spec => []OneCA` |
| | `CertificatesInForce` | `Spec => []CertInForce` |
| | `NothingForgotten` | `Spec => []NoCertForgotten` |
| `SleepyScaling_proofs` | `ScalingInvariant` | `Spec => []ScalingInv` |
| | `ScalingTyped` | `Spec => []ScalingTypeOK` |
| | `BuilderUpInTime`, `BuilderDownInTime` | `Spec => []UpInTime`, `Spec => []DownInTime` |
| | `BuilderNotDownEarly` | `Spec => NotDownEarly` |
| | `KeepsScaleToZero` | the safety part of `ImplementsScaleToZero` |
| `BuilderRollout_proofs` | `RolloutInvariant` | `Spec => []RolloutInv` |
| | `RolloutTyped` | `Spec => []RolloutTypeOK` |
| | `VerdictsSame`, `DefaultsAreOne` | `Spec => []SameVerdict`, `Spec => []DefaultsAgree` |
| | `ClaimIsMounted`, `OverridesExactly` | `Spec => []PvcIsMounted`, `Spec => []OverrideExact` |
| | `PodFindsItsMounts` | `Spec => []MountsExist` |
| | `NamesKeptApart`, `SelectorsKeptApart` | `Spec => []NamesApart`, `Spec => []SelectorsApart` |
| `BuildkitdToml_proofs` | `TomlIsExact` | `Spec => []TomlExact` |

Each inductive invariant is stated with the properties of its module and checked by TLC
on the run of its module before it was proved. The proofs have one lemma per action.

### The reconcile loop

Assumed: `SettingsAssumption`, `NotFoundAssumption`, `LaggingAssumption` and
`ControllerAssumption` (typing and finiteness of the sets, `None` distinct from what it
is absent from).

`TypeOK` alone is not inductive: a step writes into the API server what it computes
from `b`, from `spec` and from `seen`. `IInv` adds

* `CachesAgree`: a cache that is not behind equals the store. It is what makes the
  status update, computed from the worker's copy, typed and current;
* `CopyIsCurrent`: while no one else has written the builder, the copy is it;
* `ExposureChecked`: the calls that read `spec.exposure.host` are reached only
  when there is one;
* `ServicesWritten`: past the call on a Service the Service exists, since nobody
  removes an object without an owner; with it `ServicesBeforeStatefulSet` is
  preserved by the StatefulSet write.

Lemmas about the call patterns (`CallKeeps`, `CallFailsKeeps`, `RefusedKeeps`,
`ReturnKeeps`, `CreateOrUpdateKeeps`) carry the common part: a store of typed objects
keeps the cluster typed and the caches in agreement, whichever caches trail.

`StatusDescribesCluster` needs more: `IInv` says nothing of what a reconcile has
achieved. `WorkDone` does. While the worker's copy is current, past the route call
the route is the one of an exposed builder and absent otherwise, and before the
status the StatefulSet is as written. It is preserved for three reasons: only the
worker writes these two objects; a write of the builder by anybody else outdates
the copy, and `WorkDone` then asks for nothing; and the garbage collector takes only
what has an owner other than the stored builder, which is the copy's
(`GarbageCollectKeepsWork`). A status is accepted from a current copy only
(`StatusAccepted`), and no other step writes one (`ReconcileKeepsStatus`,
`OthersKeepStatus`), so `PublishDescribes` closes the argument. The property rests on
the optimistic concurrency of the status update: the mutant that drops it
(`StatusAcceptedByName`) violates it in the run `exposure`.

`NoLostWakeup` says that children which differ from what the builder asks for leave a
reconcile running or due. `WakeupInv` has the reason: a reconcile in hand accounts for
every child whose call it is past, as the builder and the template ask for it
(`WorkInSync`), so one that returns without asking to be called again accounts for all
of them (`RestInSync`). Whatever makes a child differ brings the key back: an edit of
the builder, a write of a watched object, and a cached copy that was still behind when
it was read are events; an error is retried with a delay; a restart lists everything.
`OneIncarnation` (`MaxUids = 1` and one value of the template) is a hypothesis the
property needs: the controller watches neither the template nor the ConfigMap, so an
edit of the template, or a ConfigMap collected with the builder that went before, is
seen at the next resync only. The runs `exposure` and `faults` have the same
restriction; `Converges` in `lifecycle`, with resync, has not.

`CertNoticed` is about the Secret, which unlike the route can be gone although the
worker has just found it: in a cache that trails, or with an earlier builder of the name
as its owner. Past `ensureBuilderServerCert` there is a certificate for the host in hand,
or the event of its loss is on its way to the queue (`SecretEventDue`). It holds because
that call goes on only from a write that succeeded, from a create refused because a
Secret is there, whose cached absence then is an event to come, or from a cached Secret,
which either is the stored one or is going to be replaced by it; because only
`deleteBuilderServerCert` and the garbage collector take the Secret away, and the removal
of a watched object is an event; and because a reconcile for an exposed builder does not
delete it (`WorkDone`). There is no hypothesis on caches or on earlier builders. The
status names the Secret by its name alone, so what `StatusDescribesCluster` says of it is
what `CertNoticed` says; and `MissingCertNoticed` says it of the StatefulSet.

### TLS

Assumed: `TLSAssumption`. `1 < RenewBefore <= Validity` is the code's 30 days within a
year, where the unit of time is far less than 15 days; any number of builders, hosts,
edits, faults and manual edits.

`TLSTypeOK` contains that every certificate is signed with a key that was stored: the
CA is returned by `ensureNamespaceCA` from a create that succeeded or from a read, never
from the generation alone. `CAsStored` counts CAs: without manual edits at most one was
stored, which gives `OneCA`. `HostIsCurrent` ties the worker's copy of the exposure to
the builder or to its queued key. `NoCertForgotten` is part of the invariant: each of
the ways the worker can leave a builder (certificate found good, written, removed,
error, CA unreadable) either leaves the certificate right or leaves the builder pending,
and each way a certificate can stop being right is an event. Time advances only when
nothing is pending but stuck builders, so the certificate of any other has `RenewBefore`
units or more left and loses one, a stuck one's loses a unit that `hindered` counts, and
all builders are queued: `Unexpired`.

### Scaling

Assumed: `ScalingAssumption`; negative timeouts, stamps from a clock that is ahead, and
stamps that do not parse are included. `MaxAge`, where counting stops, is past every
timeout by more than a period.

`ScalingInv` says that a builder left alone has its timer running, is up when what the
cache shows asks for it, and, when up, its stamp reaches the timeout less than a period
after the timer; and that ages descend in the order of the stamps. The refinement maps
stamps older than the timeout to the count of expired ones: `Expired` is an initial part
of the stamps because ages descend, so a `Tick` expires them in order. `KeepsScaleToZero`
is initial states to initial states, steps to steps or stutters; the fairness of
`ScaleToZero` stays with TLC.

### Rollout and rendering

Assumed: `RolloutAssumption` (the fields that code reads are among those modelled),
`ManifestAssumption` (manifests are of the CRD's types, a setting that is read word by
word has its words, `None` is no value), and `LiteralsAssumption`, which only says that
the string literals of the code are strings, a fact the provers do not know.

`RolloutInv` has three parts beside `NothingDangles`, which says that nothing is there
without what it depends on; `TypesOK`, the other half of `RolloutTypeOK`, is proved from
it (`TypesKept`). `FromManifest`: what is stored is what
the schema makes of the manifest, with the exposure it was edited to. `WorkInHand`: what
has been written so far is what the worker's copy asks for (`Progress`), and the copy is
the builder unless its key is queued again. `Outcomes`: a settled builder's objects are
those of the builder as it is and were all taken by the API server, and an error has one
of three reasons. The properties
follow from the second and third by what the functions return: names by cancelling
prefixes and suffixes of sequences (`CancelLeft`, `CancelRight`), labels and volumes by
cases, defaults by comparing the fields the controller reads.

For `labelsForBuilder` the proof found an error of an earlier form of the model, which
chose between the user's label and the operator's with `CASE` and left it open which arm
is taken when both apply. The code writes the user's last, and now so does the model.
Likewise `Compatible` used to name one top-level line that collides with the listener;
the proof for all texts needs, and now has, every top-level address.

`TomlExact` is about texts of any length. The table of a line is the last header before
it (`TableIs`), which exists because finite sets of positions have a greatest element
(`LastOne`, by the well-foundedness of strict inclusion). From it: what is put behind a
line never matters to it (`TableInFront`), and what is put in front matters to top-level
lines only (`TableBehind`). Whether `tcp://` or `[grpc.tls]` occurs is asked of every
line, comments included (`HasTcp`, `HasTls`). So the listener in front of a text without `tcp://` moves
exactly the top-level lines, into `[grpc]` (`FrontSays`, `FrontParses`), and the table
behind adds to its own table only (`BackSays`, `BackKeeps`).

### Only model-checked

* Liveness: `Converges`, `NothingLeftBehind`, `DeletionCompletes`, `StatusSettles`,
  `ScalesToZero`, `WakesForBuild`, `CertsFollowCA`, `PodFollowsExposure`, and the fairness
  part of `ImplementsScaleToZero`: temporal reasoning with fairness and `ENABLED` is out of
  the provers' reach.
* `CertBeforePod`, in `faults`, on an instance without the two cases in which it fails.
* `NoLostWakeup` is proved under the hypothesis `OneIncarnation` (above).

## 7. What makes each component correct, and the plan

| component | must guarantee | where |
|---|---|---|
| Reconcile loop | order of objects, no lost wake-up, convergence, deletion finishes, nothing owned left behind, true status | runs above |
| Exposure | route, certificate and advertised host agree; certificate before pod, or its absence noticed | `StatusDescribesCluster`, `CertBeforePod`, `MissingCertNoticed` |
| Sleepy scaling | idle is scaled down, used is woken | `ScalesToZero`, `WakesForBuild` |
| Watches | what is not watched is still repaired | `Converges`, `NoLostWakeup` |
| TLS | the certificate in every exposed builder's Secret is for its host, in force, signed by the CA of its clients | `CertInForce`, `OneCA`, `CertsFollowCA` |
| Sleepy scaling, timed | down when the timeout is over and not before, up at once | `DownInTime`, `NotDownEarly`, `UpInTime`, `ImplementsScaleToZero` |
| Template resolution | inline wins field by field; what defaulting overrides is known | `OverrideExact` |
| Admission | schema, webhooks, controller and API server agree | `SameVerdict`, `DefaultsAgree` |
| Rendering | objects of different functions fit together; the daemon starts and listens as its Services and route expect | `TomlExact`, `MountsExist`, `PvcIsMounted`, `PodFollowsExposure` |
| Names and labels | builders keep apart | `NamesApart`, `SelectorsApart` |

Order of work. Done: the reconcile loop with its environment; TLS; rendering,
admission and rollout; scaling with a clock; the proof of every invariant and action
property that a passing run checks. Next, theorems:

1. `PodFollowsExposure` has a safety part worth stating by itself: what a running pod was
   started with agrees with the StatefulSet whenever nothing is left to roll and every
   edit was calm.
2. The CA as part of `NoLostWakeup`'s argument for a template that is edited: the
   informers' resync then takes the place of the missing watch.

### Not modelled

* Generated deepcopy code, kustomizations, roles, metrics, probes, events, the
  status's conditions: nothing branches on them.
* Two builders in one `BuilderController`: their reconciles share the namespace's CA,
  which `BuilderTLS` has, and colliding names, which `NamesApart` has, and nothing else.
* The webhooks as part of the API server: `main.go` registers neither.
* Expiry of the CA: nothing in the code reacts to it.
* The delay with which a mounted ConfigMap or Secret changes, pods deleted or evicted, and
  children deleted by users.
* Exposure in `lifecycle`, so that the route and the Secret of a deleted builder are
  collected is `NothingLeftBehind` for the other children only; they carry the same
  controller reference.
* A builder that cannot be resolved (its template is gone): `Converges` and
  `DeletionCompletes` are stated for the others. With a finalizer its deletion waits
  for the template, because `Reconcile` resolves the template first
  (`buildkitbuilder_controller.go:73`).
* `replicas: 0` of a persistent builder: `reconcilePersistent` returns before the status
  when there is no pod, so the status keeps its last phase. `StatusSettles` is checked
  with pods that come back.
* Edits of `idleTimeoutSeconds`. The pod cache trails in `exposure`, not in `status`.
* In `faults` the Secret cache does not trail and there is one builder of the name; both
  are covered by `CertNoticed` in `exposure` and by its proof.
