------------------------ MODULE BuilderRollout_proofs ------------------------
(***************************************************************************)
(* Proofs that what a reconcile writes for a manifest fits together, for   *)
(* every manifest, name, setting and buildkitd.toml.                       *)
(*                                                                         *)
(* The inductive invariant is RolloutInv: what the worker has written when *)
(* it is at a call.  The properties of a settled builder follow from it    *)
(* and from lemmas about the functions that build names, labels and pods.  *)
(***************************************************************************)
EXTENDS BuilderRollout, FiniteSetTheorems, SequenceTheorems, TLAPS

\* One word is a sequence of words.
LEMMA OneWord ==
  ASSUME NEW S, NEW word \in S
  PROVE  <<word>> \in Seq(S) /\ Len(<<word>>) = 1 /\ <<word>>[1] = word
OBVIOUS

\* So are none, two and three.
LEMMA ShortTexts ==
  ASSUME NEW S, NEW x \in S, NEW y \in S, NEW z \in S
  PROVE  /\ <<>> \in Seq(S) /\ <<x, y>> \in Seq(S) /\ <<x, y, z>> \in Seq(S)
OBVIOUS

LEMMA Joined ==
  ASSUME NEW S, NEW s \in Seq(S), NEW t \in Seq(S)
  PROVE  s \o t \in Seq(S)
OBVIOUS

\* The first element of a sequence of at least one belongs to it, and so on.
LEMMA WordsOf ==
  ASSUME NEW S, NEW s \in Seq(S), NEW n \in Nat, 1 <= n, n <= Len(s)
  PROVE  s[n] \in S
OBVIOUS

-----------------------------------------------------------------------------
(* The types of what the functions return.                                 *)

\* A template the API server stores, or one resolved for a builder.
Shaped(t) == t \in TemplateObject /\ WellShaped(t.set)

\* The schema's defaults keep what the user wrote and add an image.
LEMMA StoredTemplateType ==
  ASSUME NEW m, TemplateManifest(m)
  PROVE  Shaped(StoredTemplate(m)) /\ StoredTemplate(m) # None
<1>1. /\ m.rootless \in BOOLEAN \cup {None}
      /\ DOMAIN m.set \subseteq Fields
      /\ \A f \in DOMAIN m.set : m.set[f] \in Settings \cup {None}
      /\ WellShaped(m.set)
  BY DEF TemplateManifest
<1>2. RootlessImage \in Seq(STRING) /\ Len(RootlessImage) = 1
  BY OneWord, LiteralsAssumption DEF RootlessImage
<1>3. StoredTemplate(m) \in TemplateObject
  BY <1>1, <1>2, ManifestAssumption DEF StoredTemplate, TemplateObject, OrElse
<1>4. WellShaped(StoredTemplate(m).set)
  BY <1>1, <1>2 DEF WellShaped, StoredTemplate
<1> QED BY <1>3, <1>4, ManifestAssumption DEF Shaped

\* A builder is stored with its manifest's name, labels and reference.
LEMMA StoredBuilderType ==
  ASSUME NEW m, BuilderManifest(m)
  PROVE  /\ StoredBuilder(m) \in BuilderObject /\ StoredBuilder(m) # None
         /\ StoredBuilder(m).name = m.name
         /\ StoredBuilder(m).templateName = m.templateName
         /\ StoredBuilder(m).spec.templateRef = m.spec.templateRef
         /\ StoredBuilder(m).spec.template =
              IF m.spec.template = None THEN None ELSE StoredTemplate(m.spec.template)
<1> DEFINE s == m.spec
           inline == IF s.template = None THEN None ELSE StoredTemplate(s.template)
<1>1. /\ m \in [name: Seq(STRING), templateName: Seq(STRING) \cup {None}, spec: {s}]
      /\ s \in [mode: {"persistent", "sleepy"}, replicas: Int \cup {None},
                idleTimeoutSeconds: Int \cup {None}, labels: LabelSets,
                exposure: ExposureManifest \cup {None}, templateRef: BOOLEAN,
                template: {s.template}]
      /\ s.template # None => TemplateManifest(s.template)
  BY DEF BuilderManifest
<1>2. StoredExposure(s.exposure) \in ExposureManifest \cup {None}
  BY <1>1, LiteralsAssumption DEF StoredExposure, ExposureManifest, OrElse
<1>3. inline \in TemplateObject \cup {None}
  BY <1>1, StoredTemplateType DEF Shaped
<1>4. OrElse(s.replicas, 1) \in Int /\ OrElse(s.idleTimeoutSeconds, 300) \in Int
  BY <1>1 DEF OrElse
<1> HIDE DEF inline, s
<1>5. /\ StoredSpec(s).templateRef = s.templateRef /\ StoredSpec(s).template = inline
      /\ StoredSpec(s) \in
           [mode: {"persistent", "sleepy"}, replicas: Int, idleTimeoutSeconds: Int,
            labels: LabelSets, exposure: ExposureManifest \cup {None},
            templateRef: BOOLEAN, template: TemplateObject \cup {None}]
  <2> DEFINE Edited(n, i, e, t) ==
               [s EXCEPT !.replicas = n, !.idleTimeoutSeconds = i, !.exposure = e,
                         !.template = t]
  <2>1. StoredSpec(s) = Edited(OrElse(s.replicas, 1), OrElse(s.idleTimeoutSeconds, 300),
                               StoredExposure(s.exposure), inline)
    BY DEF StoredSpec, inline
  <2>2. PICK n \in Int, i \in Int :
          n = OrElse(s.replicas, 1) /\ i = OrElse(s.idleTimeoutSeconds, 300)
    BY <1>4
  <2>3. PICK e \in ExposureManifest \cup {None}, t \in TemplateObject \cup {None} :
          e = StoredExposure(s.exposure) /\ t = inline
    BY <1>2, <1>3
  <2>4. /\ Edited(n, i, e, t).templateRef = s.templateRef /\ Edited(n, i, e, t).template = t
        /\ Edited(n, i, e, t) \in
             [mode: {"persistent", "sleepy"}, replicas: Int, idleTimeoutSeconds: Int,
              labels: LabelSets, exposure: ExposureManifest \cup {None},
              templateRef: BOOLEAN, template: TemplateObject \cup {None}]
    BY <1>1
  <2> HIDE DEF Edited
  <2>5. StoredSpec(s) = Edited(n, i, e, t)
    BY <2>1, <2>2, <2>3
  <2> QED BY <2>3, <2>4, <2>5
<1>6. StoredBuilder(m).spec = StoredSpec(s) /\ StoredBuilder(m) \in BuilderObject
  BY <1>1, <1>5 DEF StoredBuilder, BuilderObject, s
<1> QED BY <1>1, <1>5, <1>6, ManifestAssumption DEF StoredBuilder, inline, s

\* What resolveSpec returns has a value, or none, for every field.
LEMMA ResolvedType ==
  ASSUME NEW s, NEW t, ~Unresolvable(s, t),
         s.templateRef \in BOOLEAN,
         s.template # None => Shaped(s.template), t # None => Shaped(t)
  PROVE  Shaped(resolveSpec(s, t))
<1> DEFINE base == IF s.templateRef THEN t ELSE ZeroTemplate
<1>1. Shaped(ZeroTemplate)
  BY DEF Shaped, ZeroTemplate, TemplateObject, WellShaped
<1>2. Shaped(base) \/ base = None
  BY <1>1
<1>3. s.template = None => Shaped(base)
  BY <1>1, <1>2 DEF Unresolvable
<1>4. ASSUME NEW x, NEW y, Shaped(x), Shaped(y)
      PROVE  Shaped(mergeSpec(x, y))
  BY <1>4 DEF Shaped, mergeSpec, TemplateObject, WellShaped
<1>5. Shaped(base)
  BY <1>1, <1>2 DEF Unresolvable
<1> QED BY <1>3, <1>4, <1>5 DEF resolveSpec

\* The parts of a stored builder the controller reads.
LEMMA BuilderFields ==
  ASSUME NEW b \in BuilderObject
  PROVE  /\ b.name \in Seq(STRING) /\ b.templateName \in Seq(STRING) \cup {None}
         /\ b.spec.mode \in {"persistent", "sleepy"} /\ b.spec.labels \in LabelSets
         /\ b.spec.exposure \in ExposureManifest \cup {None}
         /\ b.spec.templateRef \in BOOLEAN
         /\ b.spec.template \in TemplateObject \cup {None}
BY DEF BuilderObject

\* Another exposure leaves the rest of a builder alone.
LEMMA EditedType ==
  ASSUME NEW b \in BuilderObject, NEW e \in ExposureManifest \cup {None},
         NEW c, c = [b EXCEPT !.spec.exposure = e]
  PROVE  /\ c \in BuilderObject /\ c.name = b.name /\ c.templateName = b.templateName
         /\ c.spec.templateRef = b.spec.templateRef /\ c.spec.template = b.spec.template
<1> DEFINE spec == [b.spec EXCEPT !.exposure = e]
<1>1. /\ spec.templateRef = b.spec.templateRef /\ spec.template = b.spec.template
      /\ spec \in
           [mode: {"persistent", "sleepy"}, replicas: Int, idleTimeoutSeconds: Int,
            labels: LabelSets, exposure: ExposureManifest \cup {None},
            templateRef: BOOLEAN, template: TemplateObject \cup {None}]
  BY DEF BuilderObject
<1>2. c = [b EXCEPT !.spec = spec]
  OBVIOUS
<1> HIDE DEF spec
<1>3. /\ [b EXCEPT !.spec = spec] \in BuilderObject
      /\ [b EXCEPT !.spec = spec].name = b.name
      /\ [b EXCEPT !.spec = spec].templateName = b.templateName
      /\ [b EXCEPT !.spec = spec].spec = spec
  BY <1>1 DEF BuilderObject
<1> QED BY <1>1, <1>2, <1>3 DEF spec

\* A name is a sequence of words.
LEMMA NameType ==
  ASSUME NEW b \in BuilderObject, NEW suffix \in Seq(STRING)
  PROVE  Named(b, suffix) \in Seq(STRING)
<1>1. <<"builder">> \in Seq(STRING) /\ b.name \in Seq(STRING)
  BY OneWord, LiteralsAssumption, BuilderFields
<1> QED BY <1>1 DEF Named

\* The labels are words, under the operator's keys and the user's.
LEMMA LabelsType ==
  ASSUME NEW b \in BuilderObject
  PROVE  \E keys \in SUBSET LabelKeys : labelsForBuilder(b) \in [keys -> Seq(STRING)]
<1> DEFINE valid == {k \in DOMAIN b.spec.labels : validLabelValue(b.spec.labels[k])}
           keys  == {LabelKeyBuilderName, LabelKeyBuilderMode} \cup valid
<1>1. /\ b.spec.labels \in LabelSets /\ b.name \in Seq(STRING)
      /\ <<b.spec.mode>> \in Seq(STRING)
  BY BuilderFields, OneWord, LiteralsAssumption
<1>2. keys \in SUBSET LabelKeys
  BY <1>1 DEF LabelKeys
<1>3. \A k \in valid : b.spec.labels[k] \in Seq(STRING)
  BY <1>1, ManifestAssumption
<1>4. labelsForBuilder(b) \in [keys -> Seq(STRING)]
  BY <1>1, <1>3 DEF labelsForBuilder
<1> QED BY <1>2, <1>4

\* The volumes of a pod.
LEMMA VolumesType ==
  ASSUME NEW b \in BuilderObject, NEW t, Shaped(t),
         NEW volume, volume = [kind: {"ConfigMap", "Secret", "PersistentVolumeClaim", "EmptyDir"},
                               name: Seq(STRING), path: Paths]
  PROVE  buildPodSpec(b, t).volumes \subseteq volume
<1>1. ASSUME NEW kind \in {"ConfigMap", "Secret", "PersistentVolumeClaim", "EmptyDir"},
             NEW n \in Seq(STRING), NEW path \in Paths
      PROVE  Volume(kind, n, path) \in volume
  BY <1>1 DEF Volume
<1>2. /\ configMapName(b) \in Seq(STRING) /\ cacheName(b) \in Seq(STRING)
      /\ builderTLSSecretName(b) \in Seq(STRING) /\ <<>> \in Seq(STRING)
  <2>1. {"buildkitd", "cache", "tls"} \subseteq STRING
    BY LiteralsAssumption
  <2>2. \A w \in {"buildkitd", "cache", "tls"} : <<w>> \in Seq(STRING)
    BY <2>1, OneWord
  <2>3. <<>> \in Seq(STRING)
    BY <2>1, ShortTexts
  <2> QED BY <2>2, <2>3, NameType DEF configMapName, cacheName, builderTLSSecretName
<1>3. Volume("ConfigMap", configMapName(b), "/etc/buildkit") \in volume
  BY <1>1, <1>2 DEF Paths
<1>4. CacheVolume(b, t) \in volume
  <2>1. cacheMountPath(t) \in Paths
    BY DEF cacheMountPath, Paths
  <2>2. ASSUME NEW path \in Paths
        PROVE  /\ Volume("PersistentVolumeClaim", cacheName(b), path) \in volume
               /\ Volume("EmptyDir", <<>>, path) \in volume
    BY <1>1, <1>2
  <2> QED BY <2>1, <2>2 DEF CacheVolume
<1>5. TlsVolume(b) \subseteq volume
  BY <1>1, <1>2 DEF TlsVolume, Paths
<1>6. S3Credentials(t) \subseteq volume
  <2> DEFINE cache == t.set["cacheConfig"]
  <2>1. cache \in Seq(STRING) \cup {None}
    BY SettingsAssumption DEF Shaped, TemplateObject
  <2>2. cache # None /\ Len(cache) = 3 => <<cache[3]>> \in Seq(STRING)
    <3>1. cache # None /\ Len(cache) = 3 => cache[3] \in STRING
      BY <2>1, WordsOf
    <3> HIDE DEF cache
    <3> QED BY <3>1, OneWord
  <2>3. CASE cache # None /\ cache[1] = "s3" /\ Len(cache) = 3
    <3> DEFINE secret == <<cache[3]>>
    <3>1. S3Credentials(t) = {Volume("Secret", secret, "/etc/buildkit/s3-creds")}
      BY <2>3 DEF S3Credentials
    <3>2. secret \in Seq(STRING)
      BY <2>2, <2>3
    <3> HIDE DEF secret
    <3> QED BY <1>1, <3>1, <3>2 DEF Paths
  <2>4. CASE ~(cache # None /\ cache[1] = "s3" /\ Len(cache) = 3)
    BY <2>4 DEF S3Credentials
  <2> QED BY <2>3, <2>4
<1>7. buildPodSpec(b, t).volumes =
        {Volume("ConfigMap", configMapName(b), "/etc/buildkit"), CacheVolume(b, t)}
          \cup TlsVolume(b) \cup S3Credentials(t)
  BY DEF buildPodSpec
<1> QED BY <1>3, <1>4, <1>5, <1>6, <1>7

\* A pod spec is one.
LEMMA PodType ==
  ASSUME NEW b \in BuilderObject, NEW t, Shaped(t)
  PROVE  buildPodSpec(b, t) \in PodObject
<1>1. /\ t.set \in [Fields -> Seq(STRING) \cup {None}]
      /\ t.rootless \in BOOLEAN
      /\ \A f \in Fields : t.set[f] # None => Len(t.set[f]) >= IF f = "nodeSelector" THEN 2 ELSE 1
  BY DEF Shaped, TemplateObject, WellShaped
<1>2. {"buildkitImage", "nodeSelector", "arch"} \subseteq Fields
  BY RolloutAssumption DEF OptionalFields
<1>3. NodeArch(t) \in STRING \cup {None}
  <2>1. t.set["nodeSelector"] # None => t.set["nodeSelector"][2] \in STRING
    BY <1>1, <1>2
  <2>2. t.set["arch"] # None => t.set["arch"][1] \in STRING
    BY <1>1, <1>2
  <2> DEFINE selector == t.set["nodeSelector"]
             arch     == t.set["arch"]
             chosen   == selector # None /\ selector[1] = "kubernetes.io/arch"
  <2>3. NodeArch(t) = CASE chosen -> selector[2]
                        [] ~chosen /\ arch # None -> arch[1]
                        [] OTHER -> None
    BY DEF NodeArch
  <2>4. /\ chosen => selector[2] \in STRING
        /\ arch # None => arch[1] \in STRING
    BY <2>1, <2>2
  <2> HIDE DEF selector, arch, chosen
  <2> QED BY <2>3, <2>4
<1>4. t.set["buildkitImage"] \in Seq(STRING) \cup {None}
  BY <1>1, <1>2
<1>5. ASSUME NEW i \in Seq(STRING) \cup {None}, NEW r \in BOOLEAN,
             NEW a \in STRING \cup {None}, NEW volume, NEW v \in SUBSET volume
      PROVE  [image |-> i, nonRoot |-> r, arch |-> a, volumes |-> v] \in
               [image: Seq(STRING) \cup {None}, nonRoot: BOOLEAN, arch: STRING \cup {None},
                volumes: SUBSET volume]
  BY <1>5
<1>6. buildPodSpec(b, t) =
        [image |-> t.set["buildkitImage"], nonRoot |-> t.rootless, arch |-> NodeArch(t),
         volumes |-> buildPodSpec(b, t).volumes]
  BY DEF buildPodSpec
<1> QED
  <2> DEFINE volume == [kind: {"ConfigMap", "Secret", "PersistentVolumeClaim", "EmptyDir"},
                        name: Seq(STRING), path: Paths]
             vs == buildPodSpec(b, t).volumes
  <2>1. vs \in SUBSET volume
    BY VolumesType
  <2> HIDE DEF volume, vs
  <2>2. [image |-> t.set["buildkitImage"], nonRoot |-> t.rootless, arch |-> NodeArch(t),
         volumes |-> vs] \in
          [image: Seq(STRING) \cup {None}, nonRoot: BOOLEAN, arch: STRING \cup {None},
           volumes: SUBSET volume]
    BY <1>1, <1>3, <1>4, <1>5, <2>1
  <2> QED BY <1>6, <2>2 DEF PodObject, volume, vs

\* The StatefulSet that is written is an object.
LEMMA WorkloadTyped ==
  ASSUME NEW b \in BuilderObject, NEW t, Shaped(t)
  PROVE  \E keys \in SUBSET LabelKeys :
           [labels |-> labelsForBuilder(b), pod |-> buildPodSpec(b, t)]
             \in StatefulSetObject(keys)
<1>1. PICK keys \in SUBSET LabelKeys : labelsForBuilder(b) \in [keys -> Seq(STRING)]
  BY LabelsType
<1>2. [labels |-> labelsForBuilder(b), pod |-> buildPodSpec(b, t)] \in StatefulSetObject(keys)
  BY <1>1, PodType DEF StatefulSetObject
<1> QED BY <1>2

LEMMA WorkloadStored ==
  ASSUME NEW b \in BuilderObject, NEW t, Shaped(t)
  PROVE  [labels |-> labelsForBuilder(b), pod |-> buildPodSpec(b, t)] # None
BY WorkloadTyped, ManifestAssumption

\* So is the text of the ConfigMap.
LEMMA TomlType ==
  ASSUME NEW text \in Seq(STRING) \cup {None}, NEW exposed \in BOOLEAN
  PROVE  buildkitdToml(text, exposed) \in Seq(STRING)
<1>1. /\ defaultBuildkitdToml \in Seq(STRING) /\ TlsTable \in Seq(STRING)
      /\ <<"[grpc]", "address tcp 1234">> \in Seq(STRING)
  <2>1. /\ "[grpc]" \in STRING /\ "address tcp 1234" \in STRING /\ "[worker.oci]" \in STRING
        /\ "[grpc.tls]" \in STRING /\ "mounted certificates" \in STRING
    BY LiteralsAssumption
  <2> QED BY <2>1, ShortTexts DEF defaultBuildkitdToml, TlsTable
<1> DEFINE toml   == IF text = None THEN defaultBuildkitdToml ELSE text
           listen == IF ToSet(toml) \cap TcpLines = {}
                     THEN <<"[grpc]", "address tcp 1234">> \o toml ELSE toml
<1>2. toml \in Seq(STRING)
  BY <1>1
<1>3. listen \in Seq(STRING)
  <2>1. <<"[grpc]", "address tcp 1234">> \o toml \in Seq(STRING)
    BY <1>1, <1>2, Joined, Zenon
  <2> QED BY <1>2, <2>1, Zenon
<1>4. listen \o TlsTable \in Seq(STRING)
  BY <1>1, <1>3, Joined, Zenon
<1>5. buildkitdToml(text, exposed) =
        IF exposed /\ ToSet(listen) \cap TlsLines = {} THEN listen \o TlsTable ELSE listen
  BY DEF buildkitdToml
<1> HIDE DEF listen
<1> QED BY <1>3, <1>4, <1>5, Zenon

-----------------------------------------------------------------------------
(* What the invariant says at once.                                        *)

\* The names of objects are those of the builder's name.
LEMMA SameName ==
  ASSUME NEW b, NEW c, b.name = c.name
  PROVE  /\ Workload(b) = Workload(c) /\ ConfigMap(b) = ConfigMap(c)
         /\ Claim(b) = Claim(c) /\ ExposureParts(b) = ExposureParts(c)
         /\ Services(b) = Services(c)
BY DEF Workload, ConfigMap, Claim, ExposureParts, Services, headlessName, configMapName,
       cacheName, builderTLSSecretName, clientName, Named

\* The parts of an exposed builder are of kinds of their own.
LEMMA OwnKinds ==
  ASSUME NEW b
  PROVE  Workload(b) \notin ExposureParts(b) /\ ConfigMap(b) \notin ExposureParts(b)
BY DEF Workload, ConfigMap, ExposureParts, Object

\* The stored template and the inline one are shaped as the code reads them.
LEMMA StoredShapes ==
  ASSUME FromManifest, builder # None
  PROVE  /\ template # None => Shaped(template)
         /\ builder.spec.template # None => Shaped(builder.spec.template)
<1>1. /\ IsManifest(manifest)
      /\ template = IF manifest.template = None THEN None ELSE StoredTemplate(manifest.template)
      /\ builder.spec.template =
           IF manifest.builder.spec.template = None THEN None
           ELSE StoredTemplate(manifest.builder.spec.template)
  BY DEF FromManifest
<1>2. /\ manifest.template # None => TemplateManifest(manifest.template)
      /\ manifest.builder.spec.template # None =>
           TemplateManifest(manifest.builder.spec.template)
  BY <1>1 DEF IsManifest, BuilderManifest
<1> QED BY <1>1, <1>2, StoredTemplateType

\* So is the template the builder is resolved to.
LEMMA ResolvedShape ==
  ASSUME FromManifest, builder # None, ~Unresolvable(builder.spec, TemplateOf(builder))
  PROVE  Shaped(Resolved)
<1>1. TemplateOf(builder) # None => Shaped(TemplateOf(builder))
  BY StoredShapes DEF TemplateOf
<1>2. builder.spec.templateRef \in BOOLEAN
  BY BuilderFields DEF FromManifest
<1> QED BY <1>1, <1>2, StoredShapes, ResolvedType DEF Resolved

\* A step that changes neither manifest, template nor builder keeps what is
\* said of them.
LEMMA InputKept ==
  ASSUME FromManifest, UNCHANGED input
  PROVE  /\ FromManifest'
         /\ manifest' = manifest /\ template' = template /\ builder' = builder
         /\ Unresolvable(builder.spec, TemplateOf(builder))' =
              Unresolvable(builder.spec, TemplateOf(builder))
         /\ Resolved' = Resolved /\ Exposed' = Exposed
<1>1. manifest' = manifest /\ template' = template /\ builder' = builder
  BY DEF input
<1> QED BY <1>1 DEF FromManifest, TemplateOf, Resolved, Exposed

-----------------------------------------------------------------------------
(* The invariant holds initially and is kept by every action.              *)

LEMMA RolloutInit == Init => RolloutInv
BY DEF Init, RolloutInv, NothingDangles, FromManifest, WorkInHand, Outcomes, Settled

\* Before the first manifest there is nothing.
LEMMA ApplyStep ==
  ASSUME RolloutInv, NEW m \in Manifests, Apply(m)
  PROVE  RolloutInv'
<1>1. /\ manifest = None /\ manifest' = m /\ m # None /\ IsManifest(m)
      /\ m.template # None => TemplateAccepted(m.template)
      /\ template' = IF m.template = None THEN None ELSE StoredTemplate(m.template)
      /\ builder' = StoredBuilder(m.builder)
      /\ queued' = TRUE
      /\ pc' = pc /\ work' = work /\ outcome' = outcome /\ pod' = pod
      /\ objects' = objects /\ config' = config /\ cert' = cert /\ sts' = sts
  BY ManifestAssumption DEF Apply, written
<1>2. /\ builder = None /\ pc = "idle" /\ outcome = "none" /\ objects = {}
      /\ sts = None /\ pod = None
  BY <1>1 DEF RolloutInv, NothingDangles, FromManifest, Outcomes
<1>3. BuilderManifest(m.builder)
  BY <1>1 DEF IsManifest
<1>4. /\ builder' \in BuilderObject /\ builder' # None
      /\ builder'.name = m.builder.name
      /\ builder'.templateName = m.builder.templateName
      /\ builder'.spec.templateRef = m.builder.spec.templateRef
      /\ builder'.spec.template = IF m.builder.spec.template = None THEN None
                                  ELSE StoredTemplate(m.builder.spec.template)
  BY <1>1, <1>3, StoredBuilderType
<1>5. FromManifest'
  BY <1>1, <1>4 DEF FromManifest
<1>6. NothingDangles' /\ WorkInHand' /\ Outcomes'
  BY <1>1, <1>2, <1>4 DEF NothingDangles, WorkInHand, Outcomes, Settled
<1> QED BY <1>5, <1>6 DEF RolloutInv

\* Only the exposure changes, and the key is queued: what was written for the
\* copy in hand still is.
LEMMA EditStep ==
  ASSUME RolloutInv, NEW e \in Exposures, EditExposure(e)
  PROVE  RolloutInv'
<1>1. /\ builder # None /\ builder \in BuilderObject /\ builder' = [builder EXCEPT !.spec.exposure = e]
      /\ queued' = TRUE /\ outcome' = "none"
      /\ manifest' = manifest /\ template' = template /\ pod' = pod
      /\ pc' = pc /\ work' = work
      /\ objects' = objects /\ config' = config /\ cert' = cert /\ sts' = sts
  BY DEF EditExposure, written, RolloutInv, FromManifest
<1>2. /\ builder' \in BuilderObject /\ builder' # None
      /\ builder'.name = builder.name /\ builder'.templateName = builder.templateName
      /\ builder'.spec.templateRef = builder.spec.templateRef
      /\ builder'.spec.template = builder.spec.template
  <2>1. e \in ExposureManifest \cup {None}
    BY ManifestAssumption
  <2>2. /\ builder' \in BuilderObject
        /\ builder'.name = builder.name /\ builder'.templateName = builder.templateName
        /\ builder'.spec.templateRef = builder.spec.templateRef
        /\ builder'.spec.template = builder.spec.template
    BY <1>1, <2>1, EditedType, Zenon
  <2> QED BY <2>2, ManifestAssumption
<1>3. FromManifest'
  BY <1>1, <1>2 DEF RolloutInv, FromManifest
<1>4. /\ Unresolvable(builder.spec, TemplateOf(builder))' =
           Unresolvable(builder.spec, TemplateOf(builder))
      /\ Resolved' = Resolved
  BY <1>1, <1>2 DEF TemplateOf, Unresolvable, Resolved, resolveSpec
<1>5. WorkInHand'
  BY <1>1, <1>2, <1>4
     DEF RolloutInv, WorkInHand, Progress, ConfigDone, ExposureDone, ClaimDone, WorkloadDone
<1>6. NothingDangles' /\ Outcomes'
  <2>1. Workload(builder)' = Workload(builder)
    <3>1. Workload(builder)' = Workload(builder')
      BY DEF Workload, Object, headlessName, Named
    <3> QED BY <1>2, <3>1, SameName
  <2> QED BY <1>1, <1>2, <2>1 DEF RolloutInv, NothingDangles, Outcomes, Settled
<1> QED BY <1>3, <1>5, <1>6 DEF RolloutInv

\* A reconcile begins on a current copy, or ends at once.
LEMMA BeginStep ==
  ASSUME RolloutInv, BeginReconcile
  PROVE  RolloutInv'
<1>1. /\ pc = "idle" /\ queued = TRUE /\ queued' = FALSE /\ UNCHANGED input
      /\ objects' = objects /\ config' = config /\ cert' = cert /\ sts' = sts /\ pod' = pod
  BY DEF BeginReconcile, written, RolloutInv, NothingDangles
<1>2. /\ builder # None /\ outcome = "none" /\ FromManifest /\ builder \in BuilderObject
  BY <1>1 DEF RolloutInv, NothingDangles, Outcomes, FromManifest
<1>3. /\ FromManifest' /\ builder' = builder /\ Resolved' = Resolved /\ Exposed' = Exposed
      /\ Unresolvable(builder.spec, TemplateOf(builder))' =
           Unresolvable(builder.spec, TemplateOf(builder))
  BY <1>1, <1>2, InputKept
<1>4. CASE Unresolvable(builder.spec, TemplateOf(builder))
  <2>1. pc' = "idle" /\ outcome' = "error"
    BY <1>1, <1>4 DEF BeginReconcile, End
  <2> QED BY <1>1, <1>2, <1>3, <1>4, <2>1
             DEF RolloutInv, NothingDangles, WorkInHand, Outcomes, Settled
<1>5. CASE ~Unresolvable(builder.spec, TemplateOf(builder))
  <2>1. /\ pc' = "config" /\ outcome' = "none"
        /\ work' = [builder |-> builder, template |-> Resolved]
    BY <1>1, <1>2, <1>5 DEF BeginReconcile, Resolved
  <2>2. WorkInHand'
    BY <1>2, <1>3, <1>5, <2>1 DEF WorkInHand, Progress
  <2>3. Resolved \in TemplateObject
    BY <1>2, <1>5, ResolvedShape DEF Shaped
  <2>4. work' # None /\ work'.builder.name = builder'.name
    BY <1>2, <1>3, <2>1, <2>3, ManifestAssumption
  <2> QED BY <1>1, <1>2, <1>3, <2>1, <2>2, <2>4
             DEF RolloutInv, NothingDangles, Outcomes, Settled
<1> QED BY <1>4, <1>5

\* What a worker at a call has in hand.
LEMMA AtACall ==
  ASSUME RolloutInv, pc # "idle"
  PROVE  /\ builder # None /\ FromManifest /\ outcome = "none"
         /\ ~Unresolvable(builder.spec, TemplateOf(builder))
         /\ work.builder \in BuilderObject /\ work.builder.name = builder.name
         /\ work.template = Resolved /\ Shaped(work.template)
         /\ queued \/ work.builder = builder
         /\ Progress(work.builder, work.template, pc)
<1>1. builder # None /\ FromManifest /\ outcome = "none" /\ WorkInHand
  BY DEF RolloutInv, NothingDangles, Outcomes
<1>2. ~Unresolvable(builder.spec, TemplateOf(builder)) /\ work.template = Resolved
  BY <1>1 DEF WorkInHand
<1>3. Shaped(Resolved)
  BY <1>1, <1>2, ResolvedShape
<1> QED BY <1>1, <1>2, <1>3 DEF WorkInHand

\* A call that succeeds, and is not the last, has made its part of the progress.
LEMMA CallSucceeds ==
  ASSUME RolloutInv, pc # "idle", UNCHANGED input, pod' = pod, sts' = sts,
         NEW next \in {"services", "exposure", "pvc", "workload"}, Continue(next),
         sts # None => config' # None /\ Workload(builder) \in objects',
         Progress(work.builder, work.template, next)'
  PROVE  RolloutInv'
<1>1. /\ FromManifest' /\ builder' = builder /\ Resolved' = Resolved
      /\ Unresolvable(builder.spec, TemplateOf(builder))' =
           Unresolvable(builder.spec, TemplateOf(builder))
  BY AtACall, InputKept
<1>2. pc' = next /\ queued' = queued /\ work' = work /\ outcome' = outcome
  BY DEF Continue
<1>3. WorkInHand'
  BY <1>1, <1>2, AtACall DEF WorkInHand
<1>4. NothingDangles' /\ Outcomes'
  <2>1. NothingDangles'
    BY <1>1, <1>2, AtACall DEF RolloutInv, NothingDangles
  <2>2. Outcomes'
    BY <1>2, AtACall DEF Outcomes, Settled
  <2> QED BY <2>1, <2>2
<1> QED BY <1>1, <1>3, <1>4 DEF RolloutInv

\* A call that fails says why, if the builder is still the same.
LEMMA CallFails ==
  ASSUME RolloutInv, pc # "idle", UNCHANGED input,
         pod' = pod, sts' = sts, config' = config, queued' = queued,
         objects \subseteq objects', End("error"),
         \/ exposureEnabled(work.builder.spec) /\ ~HasController(work.builder.spec.exposure)
         \/ ~Writable(work.builder, work.template)
  PROVE  RolloutInv'
<1>1. /\ FromManifest' /\ builder' = builder /\ Resolved' = Resolved /\ Exposed' = Exposed
  BY AtACall, InputKept
<1>2. /\ pc' = "idle" /\ outcome' = (IF queued THEN "none" ELSE "error")
  BY DEF End
<1>3. WorkInHand'
  BY <1>2 DEF WorkInHand
<1>4. NothingDangles'
  <2>1. Workload(builder)' = Workload(builder)
    BY <1>1 DEF Workload, Object, headlessName, Named
  <2> QED BY <1>1, <1>2, <2>1, AtACall DEF RolloutInv, NothingDangles
<1>5. Outcomes'
  <2>1. CASE queued
    BY <1>2, <2>1 DEF Outcomes, Settled
  <2>2. CASE ~queued
    <3>1. work.builder = builder /\ work.template = Resolved
      BY <2>2, AtACall
    <3>2. \/ Exposed /\ ~HasController(builder.spec.exposure)
          \/ ~Writable(builder, Resolved)
      BY <3>1 DEF Exposed
    <3> QED BY <1>1, <1>2, <2>2, <3>2, AtACall DEF Outcomes, Settled
  <2> QED BY <2>1, <2>2
<1> QED BY <1>1, <1>3, <1>4, <1>5 DEF RolloutInv

\* The text a reconcile writes into the ConfigMap.
LEMMA ConfigText ==
  ASSUME NEW b \in BuilderObject, NEW t, Shaped(t)
  PROVE  buildkitdToml(t.set["buildkitdToml"], exposureEnabled(b.spec)) \in Seq(STRING)
<1>1. t.set["buildkitdToml"] \in Seq(STRING) \cup {None}
  BY SettingsAssumption DEF Shaped, TemplateObject
<1>2. exposureEnabled(b.spec) \in BOOLEAN
  <2>1. b.spec.exposure # None => b.spec.exposure.enabled \in BOOLEAN
    BY BuilderFields DEF ExposureManifest
  <2> QED BY <2>1, Zenon DEF exposureEnabled
<1> QED BY <1>1, <1>2, TomlType

LEMMA ConfigStep ==
  ASSUME RolloutInv, ensureBuildkitdConfigMap
  PROVE  RolloutInv'
<1> DEFINE b == work.builder
           t == work.template
<1>1. pc = "config" /\ UNCHANGED input /\ sts' = sts /\ pod' = pod
  BY DEF ensureBuildkitdConfigMap
<1>2. CASE /\ Continue("services")
           /\ config' = buildkitdToml(t.set["buildkitdToml"], exposureEnabled(b.spec))
           /\ objects' = objects \cup {ConfigMap(b)}
  <2>1. config' # None
    BY <1>1, <1>2, AtACall, ConfigText, ManifestAssumption
  <2>2. ConfigDone(b, t)'
    BY <1>2 DEF ConfigDone, Continue
  <2>3. Progress(b, t, "services")'
    BY <2>2 DEF Progress
  <2> HIDE DEF b, t
  <2>4. sts # None => config' # None /\ Workload(builder) \in objects'
    BY <1>2, <2>1 DEF RolloutInv, NothingDangles
  <2> QED BY <1>1, <1>2, <2>3, <2>4, CallSucceeds DEF b, t
<1>3. CASE ~Fit(b.name) /\ UNCHANGED <<config, objects, queued>> /\ End("error")
  <2>1. ~Writable(b, t)
    BY <1>3 DEF Writable, ServicesFit
  <2> QED BY <1>1, <1>3, <2>1, CallFails
<1> QED BY <1>2, <1>3 DEF ensureBuildkitdConfigMap

LEMMA ServicesStep ==
  ASSUME RolloutInv, createOrUpdateServices
  PROVE  RolloutInv'
<1> DEFINE b == work.builder
<1>1. /\ pc = "services" /\ UNCHANGED input
      /\ sts' = sts /\ pod' = pod /\ config' = config
  BY DEF createOrUpdateServices
<1>2. CASE ServicesFit(b) /\ Continue("exposure") /\ objects' = objects \cup Services(b)
  <2>1. ConfigDone(b, work.template) /\ work' = work
    BY <1>1, <1>2, AtACall DEF Progress, Continue
  <2>2. Progress(b, work.template, "exposure")'
    BY <1>1, <1>2, <2>1 DEF Progress, ConfigDone
  <2>3. sts # None => config' # None /\ Workload(builder) \in objects'
    BY <1>1, <1>2 DEF RolloutInv, NothingDangles
  <2> QED BY <1>1, <1>2, <2>2, <2>3, CallSucceeds
<1>3. CASE ~ServicesFit(b) /\ queued' = queued /\ End("error") /\ objects \subseteq objects'
  <2>1. ~Writable(b, work.template)
    BY <1>3 DEF Writable
  <2> QED BY <1>1, <1>3, <2>1, CallFails
<1> QED BY <1>2, <1>3 DEF createOrUpdateServices

\* Taking away the parts of an exposure leaves the others.
LEMMA ExposureStep ==
  ASSUME RolloutInv, reconcileExposure
  PROVE  RolloutInv'
<1> DEFINE b    == work.builder
           next == IF UsesPVC(work.template) THEN "pvc" ELSE "workload"
<1>1. /\ pc = "exposure" /\ UNCHANGED input
      /\ sts' = sts /\ pod' = pod /\ config' = config
  BY DEF reconcileExposure
<1>2. /\ ConfigDone(b, work.template) /\ ServicesFit(b) /\ b.name = builder.name
      /\ sts # None => config # None /\ Workload(b) \in objects
  BY <1>1, AtACall, SameName DEF Progress, RolloutInv, NothingDangles
<1>3. ASSUME cert' = (IF exposureEnabled(b.spec) THEN b.spec.exposure.host ELSE None),
             exposureEnabled(b.spec) =>
               /\ HasController(b.spec.exposure) /\ HostFits(b)
               /\ ExposureParts(b) \subseteq objects',
             {ConfigMap(b), Workload(b)} \cap objects \subseteq objects',
             Continue(next)
      PROVE  RolloutInv'
  <2>1. work' = work /\ next \in {"pvc", "workload"}
    BY <1>3 DEF Continue
  <2>2. ConfigDone(b, work.template)' /\ ServicesFit(b)'
    BY <1>1, <1>2, <1>3, <2>1 DEF ConfigDone
  <2>3. ExposureDone(b)'
    BY <1>3, <2>1 DEF ExposureDone
  <2>4. next = "workload" => ClaimDone(b, work.template)'
    BY <2>1 DEF ClaimDone
  <2>5. Progress(b, work.template, next)'
    BY <2>1, <2>2, <2>3, <2>4 DEF Progress
  <2>6. sts # None => config' # None /\ Workload(builder) \in objects'
    BY <1>1, <1>2, <1>3, SameName
  <2> QED BY <1>1, <1>3, <2>1, <2>5, <2>6, CallSucceeds
<1>4. CASE ~exposureEnabled(b.spec) /\ cert' = None /\ objects' = objects \ ExposureParts(b)
             /\ Continue(next)
  BY <1>3, <1>4, OwnKinds
<1>5. CASE exposureEnabled(b.spec) /\ ~HasController(b.spec.exposure)
             /\ UNCHANGED <<cert, objects, queued>> /\ End("error")
  BY <1>1, <1>5, CallFails
<1>6. CASE exposureEnabled(b.spec) /\ HasController(b.spec.exposure) /\ HostFits(b)
             /\ cert' = b.spec.exposure.host
             /\ objects' = objects \cup ExposureParts(b) \cup {Object("Secret", caSecretName)}
             /\ Continue(next)
  BY <1>3, <1>6
<1>7. CASE exposureEnabled(b.spec) /\ ~HostFits(b) /\ objects \subseteq objects'
             /\ queued' = queued /\ End("error")
  <2>1. ~Writable(b, work.template)
    BY <1>7 DEF Writable
  <2> QED BY <1>1, <1>7, <2>1, CallFails
<1> QED BY <1>4, <1>5, <1>6, <1>7 DEF reconcileExposure, HasController

LEMMA ClaimStep ==
  ASSUME RolloutInv, createOrUpdatePVC
  PROVE  RolloutInv'
<1>1. /\ pc = "pvc" /\ UNCHANGED input /\ queued' = queued
      /\ sts' = sts /\ pod' = pod /\ config' = config /\ cert' = cert
  BY DEF createOrUpdatePVC
<1>2. CASE ~ClaimFits(work.template) /\ End("error") /\ UNCHANGED objects
  <2>1. UsesPVC(work.template)
    BY <1>1, AtACall DEF Progress
  <2>2. ~Writable(work.builder, work.template)
    BY <1>2, <2>1 DEF Writable
  <2> QED BY <1>1, <1>2, <2>2, CallFails
<1>3. CASE ClaimFits(work.template) /\ Continue("workload")
             /\ objects' = objects \cup {Claim(work.builder)}
  <2>1. /\ ConfigDone(work.builder, work.template) /\ ExposureDone(work.builder)
        /\ ServicesFit(work.builder) /\ work' = work
    BY <1>1, <1>3, AtACall DEF Progress, Continue
  <2>2. Progress(work.builder, work.template, "workload")'
    BY <1>1, <1>3, <2>1 DEF Progress, ConfigDone, ExposureDone, ClaimDone
  <2>3. sts # None => config' # None /\ Workload(builder) \in objects'
    BY <1>1, <1>3 DEF RolloutInv, NothingDangles
  <2> QED BY <1>1, <1>3, <2>2, <2>3, CallSucceeds
<1> QED BY <1>2, <1>3 DEF createOrUpdatePVC

\* The last call: the outcome is that of the builder, unless it has changed.
LEMMA WorkloadStep ==
  ASSUME RolloutInv, createOrUpdateStatefulSet
  PROVE  RolloutInv'
<1> DEFINE b == work.builder
           t == work.template
<1>1. /\ pc = "workload" /\ UNCHANGED input /\ queued' = queued
      /\ pod' = pod /\ config' = config /\ cert' = cert
  BY DEF createOrUpdateStatefulSet
<1>3. CASE ~PodFits(b, t) /\ End("error") /\ UNCHANGED <<objects, sts>>
  <2>1. ~Writable(b, t)
    BY <1>3 DEF Writable
  <2> QED BY <1>1, <1>3, <2>1, CallFails
<1>4. CASE /\ PodFits(b, t) /\ End("written")
           /\ objects' = objects \cup {Workload(b)}
           /\ sts' = [labels |-> labelsForBuilder(b), pod |-> buildPodSpec(b, t)]
  <2>1. /\ FromManifest' /\ builder' = builder /\ Resolved' = Resolved
        /\ Unresolvable(builder.spec, TemplateOf(builder))' =
             Unresolvable(builder.spec, TemplateOf(builder))
    BY <1>1, AtACall, InputKept
  <2>2. pc' = "idle" /\ outcome' = IF queued THEN "none" ELSE "written"
    BY <1>1, <1>4 DEF End
  <2>3. /\ builder # None /\ config # None /\ b.name = builder.name /\ ServicesFit(b)
        /\ ConfigDone(b, t) /\ ExposureDone(b) /\ ClaimDone(b, t)
    <3>1. /\ builder # None /\ b.name = builder.name /\ ServicesFit(b)
          /\ ConfigDone(b, t) /\ ExposureDone(b) /\ ClaimDone(b, t)
      BY <1>1, AtACall DEF Progress
    <3>2. config # None
      BY <1>1, <3>1, AtACall, ConfigText, ManifestAssumption DEF ConfigDone
    <3> QED BY <3>1, <3>2
  <2>4. WorkInHand'
    BY <2>2 DEF WorkInHand
  <2>5. NothingDangles'
    <3>1. Workload(builder)' \in objects'
      <4>1. Workload(builder)' = Workload(builder')
        BY DEF Workload, Object, headlessName, Named
      <4> QED BY <1>4, <2>1, <2>3, <4>1, SameName
    <3>2. queued \in BOOLEAN
      BY DEF RolloutInv, NothingDangles
    <3>3. sts' # None
      BY <1>1, <1>4, AtACall, WorkloadStored
    <3> QED BY <1>1, <2>1, <2>2, <2>3, <3>1, <3>2, <3>3 DEF NothingDangles
  <2>6. Outcomes'
    <3>1. CASE queued
      BY <2>2, <3>1 DEF Outcomes, Settled
    <3>2. CASE ~queued
      <4>1. b = builder /\ t = Resolved /\ ~Unresolvable(builder.spec, TemplateOf(builder))
        BY <1>1, <3>2, AtACall
      <4>2. Progress(builder, Resolved, "idle")'
        <5>1. /\ ConfigDone(builder, Resolved)' /\ ExposureDone(builder)'
              /\ ClaimDone(builder, Resolved)' /\ WorkloadDone(builder, Resolved)'
              /\ ServicesFit(builder)'
          BY <1>1, <1>4, <2>1, <2>3, <4>1
             DEF ConfigDone, ExposureDone, ClaimDone, WorkloadDone
        <5> QED BY <5>1 DEF Progress
      <4> QED BY <1>1, <2>1, <2>2, <2>3, <3>2, <4>1, <4>2 DEF Outcomes, Settled
    <3> QED BY <3>1, <3>2
  <2> QED BY <2>1, <2>4, <2>5, <2>6 DEF RolloutInv
<1> QED BY <1>3, <1>4 DEF createOrUpdateStatefulSet

-----------------------------------------------------------------------------
(* The invariant.                                                          *)

\* Stored, copied, written or judged, everything is what its manifest, the
\* worker's progress and the builder as it is make of it.
THEOREM RolloutInvariant == Spec => []RolloutInv
<1>1. Init => RolloutInv
  BY RolloutInit
<1>2. ASSUME RolloutInv, [Next]_vars
      PROVE  RolloutInv'
  <2>1. CASE \E m \in Manifests : Apply(m)
    BY <1>2, <2>1, ApplyStep
  <2>2. CASE \E e \in Exposures : EditExposure(e)
    BY <1>2, <2>2, EditStep
  <2>3. CASE Reconcile
    BY <1>2, <2>3, BeginStep, ConfigStep, ServicesStep, ExposureStep, ClaimStep, WorkloadStep
       DEF Reconcile
  <2>4. ASSUME UNCHANGED <<input, worker, written>>, pod' # None => sts # None
        PROVE  RolloutInv'
    <3>1. /\ manifest' = manifest /\ template' = template /\ builder' = builder
          /\ queued' = queued /\ pc' = pc /\ work' = work /\ outcome' = outcome
          /\ objects' = objects /\ config' = config /\ cert' = cert /\ sts' = sts
      BY <2>4 DEF input, worker, written
    <3>2. NothingDangles'
      BY <1>2, <2>4, <3>1
         DEF RolloutInv, NothingDangles, Workload, Object, headlessName, Named
    <3>3. /\ Resolved' = Resolved /\ Exposed' = Exposed /\ FromManifest'
          /\ Unresolvable(builder.spec, TemplateOf(builder))' =
               Unresolvable(builder.spec, TemplateOf(builder))
      BY <1>2, <3>1 DEF RolloutInv, FromManifest, Resolved, Exposed, TemplateOf
    <3>4. WorkInHand'
      BY <1>2, <3>1, <3>3
         DEF RolloutInv, WorkInHand, Progress, ConfigDone, ExposureDone, ClaimDone, WorkloadDone
    <3>5. Outcomes'
      BY <1>2, <3>1, <3>3
         DEF RolloutInv, Outcomes, Settled, Progress, ConfigDone, ExposureDone, ClaimDone,
             WorkloadDone
    <3> QED BY <3>2, <3>3, <3>4, <3>5 DEF RolloutInv
  <2>5. CASE PodCreated \/ PodStarts
    BY <1>2, <2>4, <2>5 DEF PodCreated, PodStarts, RolloutInv, NothingDangles
  <2>6. CASE PodRolls
    BY <2>4, <2>6 DEF PodRolls
  <2>7. CASE ContainerRestarts
    BY <1>2, <2>4, <2>7 DEF ContainerRestarts, RolloutInv, NothingDangles
  <2>8. CASE UNCHANGED vars
    <3>1. UNCHANGED <<input, worker, written>> /\ pod' = pod
      BY <2>8 DEF vars
    <3> QED BY <1>2, <2>4, <3>1 DEF RolloutInv, NothingDangles
  <2> QED BY <1>2, <2>1, <2>2, <2>3, <2>5, <2>6, <2>7, <2>8 DEF Next
<1> QED BY <1>1, <1>2, PTL DEF Spec

-----------------------------------------------------------------------------
(* Types.                                                                  *)

\* What is written has a name and one of the kinds.
NamedObjects == [kind: Kinds, name: Seq(STRING)]

LEMMA ObjectsTyped ==
  ASSUME NEW b \in BuilderObject
  PROVE  /\ ConfigMap(b) \in NamedObjects /\ Claim(b) \in NamedObjects /\ Workload(b) \in NamedObjects
         /\ Services(b) \subseteq NamedObjects /\ ExposureParts(b) \subseteq NamedObjects
         /\ Object("Service", headlessName(b)) \in NamedObjects
         /\ Object("Secret", caSecretName) \in NamedObjects
<1>1. ASSUME NEW kind \in Kinds, NEW n \in Seq(STRING) PROVE Object(kind, n) \in NamedObjects
  BY DEF Object, NamedObjects
<1>2. /\ headlessName(b) \in Seq(STRING) /\ configMapName(b) \in Seq(STRING)
      /\ cacheName(b) \in Seq(STRING) /\ builderTLSSecretName(b) \in Seq(STRING)
      /\ clientName(b) \in Seq(STRING) /\ caSecretName \in Seq(STRING)
  <2>1. /\ {"buildkitd", "cache", "tls", "client"} \subseteq STRING
        /\ "builderhub" \in STRING /\ "builder" \in STRING /\ "ca" \in STRING
    BY LiteralsAssumption
  <2>2. \A w \in {"buildkitd", "cache", "tls", "client"} : <<w>> \in Seq(STRING)
    BY <2>1, OneWord
  <2>3. <<>> \in Seq(STRING) /\ caSecretName \in Seq(STRING)
    BY <2>1, ShortTexts DEF caSecretName
  <2> QED BY <2>2, <2>3, NameType
            DEF headlessName, configMapName, cacheName, builderTLSSecretName, clientName
<1> QED BY <1>1, <1>2
          DEF ConfigMap, Claim, Workload, Services, ExposureParts, Kinds

\* Each step keeps what is stored, in hand, written and running of its type.
LEMMA TypesKept ==
  ASSUME RolloutInv, TypesOK, [Next]_vars
  PROVE  TypesOK'
<1> DEFINE copy == [builder: BuilderObject, template: TemplateObject]
<1> USE DEF TypesOK, NamedObjects
<1>1. ASSUME NEW m \in Manifests, Apply(m) PROVE TypesOK'
  <2>1. IsManifest(m) /\ m # None
    BY ManifestAssumption
  <2>2. builder' \in BuilderObject /\ template' \in TemplateObject \cup {None}
    BY <1>1, <2>1, StoredBuilderType, StoredTemplateType DEF Apply, IsManifest, Shaped
  <2> QED BY <1>1, <2>2 DEF Apply, written
<1>2. ASSUME NEW e \in Exposures, EditExposure(e) PROVE TypesOK'
  <2>1. builder' \in BuilderObject
    <3>1. e \in ExposureManifest \cup {None} /\ builder \in BuilderObject
      BY <1>2, ManifestAssumption DEF EditExposure
    <3>2. builder' = [builder EXCEPT !.spec.exposure = e]
      BY <1>2 DEF EditExposure
    <3> QED BY <3>1, <3>2, EditedType, Zenon
  <2>2. edits' \in 0 .. MaxEdits
    BY <1>2, RolloutAssumption DEF EditExposure
  <2>3. calm' \in BOOLEAN
    BY <1>2 DEF EditExposure
  <2>4. /\ template' = template /\ work' = work /\ objects' = objects /\ config' = config
        /\ cert' = cert /\ sts' = sts /\ pod' = pod
    BY <1>2 DEF EditExposure, written
  <2> QED BY <2>1, <2>2, <2>3, <2>4
<1>3. ASSUME UNCHANGED input, pod' = pod, sts' = sts,
             work' = work \/ work' = None, objects' \subseteq NamedObjects,
             config' = config \/ config' \in Seq(STRING), cert' \in Hosts \cup {None}
      PROVE  TypesOK'
  BY <1>3 DEF input
<1>4. CASE BeginReconcile
  <2>1. /\ pod' = pod /\ sts' = sts /\ objects' = objects /\ config' = config
        /\ cert' = cert /\ UNCHANGED input
    BY <1>4 DEF BeginReconcile, written
  <2>2. builder \in BuilderObject /\ builder # None /\ FromManifest
    BY <1>4, ManifestAssumption DEF BeginReconcile, RolloutInv, NothingDangles, FromManifest
  <2>3. CASE Unresolvable(builder.spec, TemplateOf(builder))
    BY <1>4, <2>1, <2>3 DEF BeginReconcile, End, input
  <2>4. CASE ~Unresolvable(builder.spec, TemplateOf(builder))
    <3>1. work' = [builder |-> builder, template |-> Resolved]
      BY <1>4, <2>4 DEF BeginReconcile, Resolved
    <3>2. Resolved \in TemplateObject
      BY <2>2, <2>4, ResolvedShape DEF Shaped
    <3>3. work' \in copy
      BY <2>2, <3>1, <3>2
    <3> QED BY <2>1, <3>3 DEF input
  <2> QED BY <2>3, <2>4
<1>5. ASSUME pc # "idle"
      PROVE  /\ work.builder \in BuilderObject /\ Shaped(work.template)
             /\ objects \subseteq NamedObjects
             /\ ConfigMap(work.builder) \in NamedObjects /\ Claim(work.builder) \in NamedObjects
             /\ Workload(work.builder) \in NamedObjects /\ Services(work.builder) \subseteq NamedObjects
             /\ ExposureParts(work.builder) \subseteq NamedObjects
             /\ Object("Service", headlessName(work.builder)) \in NamedObjects
             /\ Object("Secret", caSecretName) \in NamedObjects
  <2>1. work.builder \in BuilderObject /\ Shaped(work.template) /\ objects \subseteq NamedObjects
    BY <1>5, AtACall
  <2> HIDE DEF NamedObjects
  <2> QED BY <2>1, ObjectsTyped
<1>6. CASE ensureBuildkitdConfigMap
  <2>1. pc = "config" /\ UNCHANGED input /\ pod' = pod /\ sts' = sts /\ cert' = cert
    BY <1>6 DEF ensureBuildkitdConfigMap
  <2>2. work' = work \/ work' = None
    BY <1>6 DEF ensureBuildkitdConfigMap, Continue, End
  <2>3. config' = config \/ config' \in Seq(STRING)
    BY <1>5, <1>6, <2>1, ConfigText DEF ensureBuildkitdConfigMap
  <2>4. objects' \subseteq NamedObjects
    <3>1. objects' = objects \/ objects' = objects \cup {ConfigMap(work.builder)}
      BY <1>6 DEF ensureBuildkitdConfigMap
    <3> QED BY <1>5, <2>1, <3>1
  <2> QED BY <1>3, <2>1, <2>2, <2>3, <2>4
<1>7. CASE createOrUpdateServices
  <2>1. /\ pc = "services" /\ UNCHANGED input /\ pod' = pod /\ sts' = sts
        /\ cert' = cert /\ config' = config
    BY <1>7 DEF createOrUpdateServices
  <2>2. work' = work \/ work' = None
    BY <1>7 DEF createOrUpdateServices, Continue, End
  <2>3. objects' \subseteq NamedObjects
    <3>1. \/ objects' = objects \/ objects' = objects \cup Services(work.builder)
          \/ objects' = objects \cup {Object("Service", headlessName(work.builder))}
      BY <1>7 DEF createOrUpdateServices
    <3> QED BY <1>5, <2>1, <3>1
  <2> QED BY <1>3, <2>1, <2>2, <2>3
<1>8. CASE reconcileExposure
  <2>1. /\ pc = "exposure" /\ UNCHANGED input /\ pod' = pod /\ sts' = sts
        /\ config' = config
    BY <1>8 DEF reconcileExposure
  <2>2. work' = work \/ work' = None
    BY <1>8 DEF reconcileExposure, Continue, End
  <2>3. cert' \in Hosts \cup {None}
    <3>1. work.builder.spec.exposure \in ExposureManifest \cup {None}
      BY <1>5, <2>1, BuilderFields
    <3>2. \/ cert' = cert \/ cert' = None
          \/ exposureEnabled(work.builder.spec) /\ cert' = work.builder.spec.exposure.host
      BY <1>8 DEF reconcileExposure
    <3> QED BY <3>1, <3>2 DEF exposureEnabled, ExposureManifest
  <2>4. objects' \subseteq NamedObjects
    <3>1. \/ objects' = objects \ ExposureParts(work.builder)
          \/ objects' = objects
          \/ objects' = objects \cup ExposureParts(work.builder)
                          \cup {Object("Secret", caSecretName)}
          \/ objects' = objects \cup {Object("Secret", caSecretName)}
      BY <1>8 DEF reconcileExposure
    <3> QED BY <1>5, <2>1, <3>1
  <2> QED BY <1>3, <2>1, <2>2, <2>3, <2>4
<1>9. CASE createOrUpdatePVC
  <2>1. /\ pc = "pvc" /\ UNCHANGED input /\ pod' = pod /\ sts' = sts
        /\ cert' = cert /\ config' = config
    BY <1>9 DEF createOrUpdatePVC
  <2>2. work' = work \/ work' = None
    BY <1>9 DEF createOrUpdatePVC, Continue, End
  <2>3. objects' \subseteq NamedObjects
    <3>1. objects' = objects \/ objects' = objects \cup {Claim(work.builder)}
      BY <1>9 DEF createOrUpdatePVC
    <3> QED BY <1>5, <2>1, <3>1
  <2> QED BY <1>3, <2>1, <2>2, <2>3
<1>10. CASE createOrUpdateStatefulSet
  <2>1. /\ pc = "workload" /\ UNCHANGED input /\ pod' = pod
        /\ cert' = cert /\ config' = config /\ work' = None
    BY <1>10 DEF createOrUpdateStatefulSet, End
  <2>2. objects' \subseteq NamedObjects
    <3>1. objects' = objects \/ objects' = objects \cup {Workload(work.builder)}
      BY <1>10 DEF createOrUpdateStatefulSet
    <3> QED BY <1>5, <2>1, <3>1
  <2>3. sts' # None => \E keys \in SUBSET LabelKeys : sts' \in StatefulSetObject(keys)
    <3>1. \/ sts' = sts
          \/ sts' = [labels |-> labelsForBuilder(work.builder),
                     pod |-> buildPodSpec(work.builder, work.template)]
      BY <1>10 DEF createOrUpdateStatefulSet
    <3> QED BY <1>5, <2>1, <3>1, WorkloadTyped
  <2> QED BY <2>1, <2>2, <2>3 DEF input
<1>11. ASSUME UNCHANGED <<input, worker, written>>, pod' \in RunningPod \cup {None}
       PROVE  TypesOK'
  BY <1>11 DEF input, worker, written
<1>12. sts # None => sts.pod \in PodObject
  BY DEF StatefulSetObject
<1>13. ASSUME NEW spec \in PodObject PROVE Started(spec) \in RunningPod
  <2>1. (IF MountsTls(spec) THEN cert ELSE None) \in Hosts \cup {None}
    OBVIOUS
  <2> QED BY <2>1 DEF Started, RunningPod
<1>14. pod # None => pod.spec \in PodObject
  BY DEF RunningPod
<1>15. CASE PodCreated
  <2>1. [spec |-> sts.pod, toml |-> None, cert |-> None] \in RunningPod
    BY <1>12, <1>15 DEF PodCreated, RunningPod
  <2> QED BY <1>11, <1>15, <2>1 DEF PodCreated
<1>16. CASE PodStarts
  BY <1>11, <1>13, <1>14, <1>16 DEF PodStarts
<1>17. CASE PodRolls
  BY <1>11, <1>17 DEF PodRolls
<1>18. CASE ContainerRestarts
  BY <1>11, <1>13, <1>14, <1>18 DEF ContainerRestarts
<1>19. CASE UNCHANGED vars
  BY <1>11, <1>19 DEF vars
<1> QED BY <1>1, <1>2, <1>4, <1>6, <1>7, <1>8, <1>9, <1>10, <1>15, <1>16, <1>17, <1>18, <1>19
          DEF Next, Reconcile

\* RolloutTypeOK: whatever is stored, in hand, written or running is of its
\* type, and refers to what is there.
THEOREM RolloutTyped == Spec => []RolloutTypeOK
<1>1. Init => TypesOK
  BY RolloutAssumption DEF Init, TypesOK
<1>2. RolloutInv /\ TypesOK /\ [Next]_vars => TypesOK'
  BY TypesKept
<1>3. RolloutInv => NothingDangles
  BY DEF RolloutInv
<1>4. Spec => []TypesOK
  BY <1>1, <1>2, RolloutInvariant, PTL DEF Spec
<1> QED BY <1>3, <1>4, RolloutInvariant, PTL DEF RolloutTypeOK

-----------------------------------------------------------------------------
(* What it says of a settled builder.                                      *)

\* Everything has been written for the builder as it is.
LEMMA WhenSettled ==
  ASSUME RolloutInv, Settled
  PROVE  /\ builder # None /\ builder \in BuilderObject /\ FromManifest
         /\ ~Unresolvable(builder.spec, TemplateOf(builder)) /\ Shaped(Resolved)
         /\ ServicesFit(builder)
         /\ ConfigDone(builder, Resolved) /\ ExposureDone(builder)
         /\ ClaimDone(builder, Resolved) /\ WorkloadDone(builder, Resolved)
<1>1. builder # None /\ FromManifest /\ Outcomes
  BY DEF RolloutInv, Outcomes, Settled
<1>2. /\ ~Unresolvable(builder.spec, TemplateOf(builder))
      /\ Progress(builder, Resolved, "idle")
  BY <1>1 DEF Outcomes
<1> QED BY <1>1, <1>2, ResolvedShape DEF Progress, FromManifest

\* The reference is there just when the name is, as in the manifest.
LEMMA ReferenceNamed ==
  ASSUME FromManifest, builder # None
  PROVE  builder.spec.templateRef <=> builder.templateName # None
<1>1. BuilderManifest(manifest.builder)
  BY DEF FromManifest, IsManifest
<1> QED BY <1>1 DEF FromManifest, BuilderManifest

LEMMA VerdictsAgree == RolloutInv => SameVerdict
<1> SUFFICES ASSUME RolloutInv PROVE SameVerdict
  OBVIOUS
<1>1. ASSUME Settled PROVE validateBuilder(builder)
  <2>1. validateExposure(builder.spec)
    BY <1>1, WhenSettled DEF ExposureDone, HasController, validateExposure
  <2>2. builder.templateName # None \/ builder.spec.template # None
    BY <1>1, WhenSettled, ReferenceNamed DEF Unresolvable
  <2>3. builder.templateName # <<>>
    <3> SUFFICES ASSUME builder.templateName = <<>> PROVE FALSE
      OBVIOUS
    <3>1. /\ <<>> \in Seq(STRING) /\ Len(<<>>) = 0 /\ Len(<<"t">>) = 1
      BY EmptySeq
    <3>2. <<>> # None /\ <<>> # <<"t">>
      BY <3>1, ManifestAssumption
    <3>3. builder.spec.templateRef /\ TemplateOf(builder) = None
      BY <1>1, <3>2, WhenSettled, ReferenceNamed DEF TemplateOf
    <3> QED BY <1>1, <3>3, WhenSettled DEF Unresolvable
  <2> QED BY <2>1, <2>2, <2>3 DEF validateBuilder
<1>2. ASSUME outcome = "error"
      PROVE  \/ ~validateBuilder(builder)
             \/ Unresolvable(builder.spec, TemplateOf(builder))
             \/ ~Writable(builder, Resolved)
  <2>1. Exposed /\ ~HasController(builder.spec.exposure) => ~validateBuilder(builder)
    BY DEF validateBuilder, validateExposure, Exposed, HasController
  <2> QED BY <1>2, <2>1 DEF RolloutInv, Outcomes
<1>3. ASSUME Settled PROVE Writable(builder, Resolved)
  BY <1>3, WhenSettled DEF Writable, ExposureDone, ClaimDone, WorkloadDone
<1>4. outcome # "none" => Settled \/ outcome = "error"
  BY DEF RolloutInv, NothingDangles, Settled
<1>5. Settled => outcome # "error" /\ ~Unresolvable(builder.spec, TemplateOf(builder))
  BY WhenSettled DEF Settled
<1> QED BY <1>1, <1>2, <1>3, <1>4, <1>5 DEF SameVerdict

\* SameVerdict: Reconcile finishes for exactly the builders that the webhook
\* accepts, whose template exists, and whose objects the API server takes.
THEOREM VerdictsSame == Spec => []SameVerdict
BY VerdictsAgree, RolloutInvariant, PTL

LEMMA MountsFound == RolloutInv => MountsExist
<1> SUFFICES ASSUME RolloutInv, Settled
             PROVE  /\ Mountable(sts.pod) /\ MountsTls(sts.pod) = Exposed
                    /\ cert = IF Exposed THEN builder.spec.exposure.host ELSE None
  BY DEF MountsExist
<1> DEFINE vs == buildPodSpec(builder, Resolved).volumes
<1>1. sts.pod = buildPodSpec(builder, Resolved)
  BY WhenSettled DEF WorkloadDone
<1>2. vs = {Volume("ConfigMap", configMapName(builder), "/etc/buildkit"),
            CacheVolume(builder, Resolved)}
             \cup TlsVolume(builder) \cup S3Credentials(Resolved)
  BY DEF buildPodSpec
<1> HIDE DEF vs
<1>3. Mountable(sts.pod)
  <2> DEFINE found(v) == v.kind = "EmptyDir" \/ v.path = "/etc/buildkit/s3-creds"
                           \/ Object(v.kind, v.name) \in objects
  <2>1. found(Volume("ConfigMap", configMapName(builder), "/etc/buildkit"))
    BY WhenSettled DEF ConfigDone, ConfigMap, Volume
  <2>2. found(CacheVolume(builder, Resolved))
    BY WhenSettled DEF ClaimDone, Claim, CacheVolume, Volume
  <2>3. \A v \in TlsVolume(builder) : found(v)
    BY WhenSettled DEF ExposureDone, ExposureParts, TlsVolume, Volume
  <2>4. \A v \in S3Credentials(Resolved) : found(v)
    BY DEF S3Credentials, Volume
  <2> HIDE DEF found
  <2>5. \A v \in vs : found(v)
    BY <1>2, <2>1, <2>2, <2>3, <2>4
  <2> QED BY <1>1, <2>5 DEF Mountable, found, vs
<1>4. MountsTls(sts.pod) = Exposed
  <2>1. Volume("ConfigMap", configMapName(builder), "/etc/buildkit").path # "/etc/buildkit-tls"
    BY DEF Volume
  <2>2. CacheVolume(builder, Resolved).path # "/etc/buildkit-tls"
    BY DEF CacheVolume, Volume, cacheMountPath
  <2>3. \A v \in S3Credentials(Resolved) : v.path # "/etc/buildkit-tls"
    BY DEF S3Credentials, Volume
  <2>4. (\E v \in TlsVolume(builder) : v.path = "/etc/buildkit-tls") <=> Exposed
    BY DEF TlsVolume, Volume, Exposed
  <2>5. (\E v \in vs : v.path = "/etc/buildkit-tls") <=> Exposed
    BY <1>2, <2>1, <2>2, <2>3, <2>4
  <2>6. MountsTls(sts.pod) <=> Exposed
    BY <1>1, <2>5 DEF MountsTls, vs
  <2> QED BY <2>6 DEF MountsTls, Exposed, exposureEnabled
<1> QED BY <1>3, <1>4, WhenSettled DEF ExposureDone, Exposed

\* A settled builder's pod finds what it mounts, and the right certificate.
THEOREM PodFindsItsMounts == Spec => []MountsExist
BY MountsFound, RolloutInvariant, PTL

\* A settled builder without an inline template runs the stored one.
LEMMA PvcMounted == RolloutInv => PvcIsMounted
<1> SUFFICES ASSUME RolloutInv, Settled, template # None, builder.spec.template = None,
                    validateTemplate(template)
             PROVE  template.set["cacheConfig"][1] = "pvc" <=>
                      \E v \in sts.pod.volumes : v.kind = "PersistentVolumeClaim"
  BY DEF PvcIsMounted
<1> DEFINE cache == template.set["cacheConfig"]
           vs    == buildPodSpec(builder, template).volumes
<1>1. Resolved = template
  BY WhenSettled DEF Resolved, resolveSpec, Unresolvable, TemplateOf
<1>2. sts.pod.volumes = vs
  BY <1>1, WhenSettled DEF WorkloadDone
<1>3. cache \in Settings
  <2> DEFINE m == manifest.template
  <2>1. /\ m # None /\ template = StoredTemplate(m)
        /\ TemplateManifest(m) /\ TemplateAccepted(m)
    BY WhenSettled DEF FromManifest, IsManifest
  <2>2. template.set["cacheConfig"] = m.set["cacheConfig"]
    BY <2>1, SettingsAssumption DEF StoredTemplate, TemplateAccepted
  <2> QED BY <2>1, <2>2 DEF TemplateAccepted, TemplateManifest
<1>4. UsesPVC(template) <=> cache[1] = "pvc"
  BY <1>3, ManifestAssumption DEF UsesPVC, validateTemplate
<1>5. vs = {Volume("ConfigMap", configMapName(builder), "/etc/buildkit"),
            CacheVolume(builder, template)}
             \cup TlsVolume(builder) \cup S3Credentials(template)
  BY DEF buildPodSpec
<1>6. (\E v \in vs : v.kind = "PersistentVolumeClaim") <=> UsesPVC(template)
  <2>1. Volume("ConfigMap", configMapName(builder), "/etc/buildkit").kind
          # "PersistentVolumeClaim"
    BY DEF Volume
  <2>2. CacheVolume(builder, template).kind = "PersistentVolumeClaim" <=> UsesPVC(template)
    BY DEF CacheVolume, Volume
  <2>3. \A v \in TlsVolume(builder) \cup S3Credentials(template) :
          v.kind # "PersistentVolumeClaim"
    BY DEF TlsVolume, S3Credentials, Volume
  <2> HIDE DEF vs
  <2> QED BY <1>5, <2>1, <2>2, <2>3
<1> QED BY <1>2, <1>4, <1>6

\* A template with a cache on a volume gets the volume.
THEOREM ClaimIsMounted == Spec => []PvcIsMounted
BY PvcMounted, RolloutInvariant, PTL

LEMMA OverridesWin == RolloutInv => OverrideExact
<1> DEFINE inline == manifest.builder.spec.template
           stored == builder.spec.template
           named  == {f \in DOMAIN inline.set : inline.set[f] # None}
<1> SUFFICES ASSUME RolloutInv, Settled, builder.spec.templateRef, stored # None
             PROVE  /\ \A f \in named : Resolved.set[f] = inline.set[f]
                    /\ \A f \in Fields \ (named \cup {"buildkitImage"}) :
                         Resolved.set[f] = template.set[f]
                    /\ "buildkitImage" \notin DOMAIN inline.set =>
                         Resolved.set["buildkitImage"] = RootlessImage
                    /\ Resolved.rootless = (inline.rootless # FALSE)
  BY DEF OverrideExact
<1>1. inline # None /\ stored = StoredTemplate(inline) /\ TemplateManifest(inline)
  BY WhenSettled DEF FromManifest, IsManifest, BuilderManifest
<1>2. Resolved = mergeSpec(template, stored)
  BY WhenSettled DEF Resolved, resolveSpec, Unresolvable, TemplateOf
<1>3. DOMAIN inline.set \subseteq Fields /\ inline.rootless \in BOOLEAN \cup {None}
  BY <1>1 DEF TemplateManifest
<1>4. /\ "buildkitImage" \in Fields /\ RootlessImage # None
  <2>1. RootlessImage \in Seq(STRING)
    BY OneWord, LiteralsAssumption DEF RootlessImage
  <2> QED BY <2>1, RolloutAssumption, ManifestAssumption DEF OptionalFields
<1> DEFINE keptOr(f) == IF f \in DOMAIN inline.set THEN inline.set[f]
                        ELSE IF f = "buildkitImage" THEN RootlessImage ELSE None
<1>5. \A f \in Fields : stored.set[f] = keptOr(f)
  <2>1. StoredTemplate(inline).set = [f \in Fields |-> keptOr(f)]
    BY DEF StoredTemplate
  <2> HIDE DEF inline, stored, keptOr
  <2> QED BY <1>1, <2>1
<1>6. \A f \in Fields :
        Resolved.set[f] = IF keptOr(f) # None THEN keptOr(f) ELSE template.set[f]
  BY <1>2, <1>5 DEF mergeSpec
<1>7. Resolved.rootless = (inline.rootless # FALSE)
  <2>1. Resolved.rootless = OrElse(inline.rootless, TRUE)
    BY <1>1, <1>2 DEF mergeSpec, StoredTemplate
  <2>2. None # FALSE /\ None # TRUE
    BY ManifestAssumption
  <2>3. CASE inline.rootless = None
    BY <2>1, <2>2, <2>3, Zenon DEF OrElse
  <2>4. CASE inline.rootless = TRUE
    BY <2>1, <2>2, <2>4, Zenon DEF OrElse
  <2>5. CASE inline.rootless = FALSE
    BY <2>1, <2>2, <2>5, Zenon DEF OrElse
  <2> QED BY <1>3, <2>3, <2>4, <2>5
<1>8. \A f \in named : Resolved.set[f] = inline.set[f]
  BY <1>3, <1>6
<1>9. \A f \in Fields \ (named \cup {"buildkitImage"}) : Resolved.set[f] = template.set[f]
  BY <1>6
<1>10. "buildkitImage" \notin DOMAIN inline.set => Resolved.set["buildkitImage"] = RootlessImage
  BY <1>4, <1>6
<1> HIDE DEF inline, stored, named
<1> QED BY <1>7, <1>8, <1>9, <1>10, Zenon

\* An inline template changes the settings it names, the image and rootless.
THEOREM OverridesExactly == Spec => []OverrideExact
BY OverridesWin, RolloutInvariant, PTL

-----------------------------------------------------------------------------
(* Defaults.                                                               *)

\* A default that has been filled in is not filled in again.
LEMMA DefaultTwice ==
  ASSUME NEW x, NEW d
  PROVE  OrElse(OrElse(x, d), d) = OrElse(x, d)
BY DEF OrElse

\* What the controller works with depends on these fields only.
LEMMA EffectiveSame ==
  ASSUME NEW b, NEW c, c.spec.mode = b.spec.mode,
         OrElse(c.spec.replicas, 1) = OrElse(b.spec.replicas, 1),
         b.spec.mode = "sleepy" =>
           OrElse(c.spec.idleTimeoutSeconds, 300) = OrElse(b.spec.idleTimeoutSeconds, 300),
         exposureEnabled(c.spec) <=> exposureEnabled(b.spec),
         exposureEnabled(b.spec) =>
           OrElse(c.spec.exposure.entryPoint, "websecure") =
             OrElse(b.spec.exposure.entryPoint, "websecure")
  PROVE  Effective(c) = Effective(b)
BY DEF Effective

\* The fields of a manifest.
LEMMA ManifestFields ==
  ASSUME NEW m, BuilderManifest(m)
  PROVE  /\ m \in [name: Seq(STRING), templateName: Seq(STRING) \cup {None}, spec: {m.spec}]
         /\ m.spec \in [mode: {"persistent", "sleepy"}, replicas: Int \cup {None},
                        idleTimeoutSeconds: Int \cup {None}, labels: LabelSets,
                        exposure: ExposureManifest \cup {None}, templateRef: BOOLEAN,
                        template: {m.spec.template}]
         /\ m.spec.exposure \in ExposureManifest \cup {None}
BY DEF BuilderManifest

\* The schema changes nothing the controller would not have assumed.
LEMMA StoredEffective ==
  ASSUME NEW m, BuilderManifest(m)
  PROVE  Effective(StoredBuilder(m)) = Effective(m)
<1> DEFINE s == m.spec
           c == StoredBuilder(m).spec
           e == s.exposure
<1>1. /\ c.mode = s.mode /\ c.replicas = OrElse(s.replicas, 1)
      /\ c.idleTimeoutSeconds = OrElse(s.idleTimeoutSeconds, 300)
      /\ c.exposure = StoredExposure(e)
  <2>1. c = StoredSpec(s)
    BY ManifestFields DEF StoredBuilder
  <2> QED BY <2>1, ManifestFields DEF StoredSpec
<1>2. /\ e # None => StoredExposure(e) # None /\ StoredExposure(e).enabled = e.enabled
                       /\ StoredExposure(e).entryPoint = e.entryPoint
      /\ e = None => StoredExposure(e) = None
  <2>1. CASE e # None
    <3>1. e \in ExposureManifest
      BY <2>1, ManifestFields
    <3>2. OrElse(e.ingressController, "traefik") \in STRING \cup {None}
      BY <3>1, LiteralsAssumption DEF ExposureManifest, OrElse
    <3> HIDE DEF e
    <3>3. ASSUME NEW i \in STRING \cup {None}
          PROVE  LET x == [e EXCEPT !.ingressController = i]
                 IN  x \in ExposureManifest /\ x.enabled = e.enabled
                       /\ x.entryPoint = e.entryPoint
      BY <3>1 DEF ExposureManifest
    <3> QED BY <2>1, <3>2, <3>3, ManifestAssumption DEF StoredExposure
  <2>2. CASE e = None
    BY <2>2 DEF StoredExposure
  <2> QED BY <2>1, <2>2
<1>3. exposureEnabled(c) <=> exposureEnabled(s)
  BY <1>1, <1>2 DEF exposureEnabled
<1>4. exposureEnabled(s) => c.exposure.entryPoint = s.exposure.entryPoint
  BY <1>1, <1>2 DEF exposureEnabled
<1> HIDE DEF c
<1> QED BY <1>1, <1>3, <1>4, DefaultTwice, EffectiveSame DEF c

\* Nor does the webhook.
LEMMA WebhookEffective ==
  ASSUME NEW m, BuilderManifest(m)
  PROVE  Effective(DefaultBuilder(m)) = Effective(m)
<1> DEFINE s == m.spec
           c == DefaultBuilder(m).spec
           e == s.exposure
<1>1. /\ c.mode = s.mode /\ c.replicas = OrElse(s.replicas, 1)
      /\ c.idleTimeoutSeconds = IF s.mode = "sleepy" THEN OrElse(s.idleTimeoutSeconds, 300)
                                ELSE s.idleTimeoutSeconds
      /\ c.exposure = defaultExposure(e)
  <2>1. c = DefaultSpec(s)
    BY ManifestFields DEF DefaultBuilder
  <2> QED BY <2>1, ManifestFields DEF DefaultSpec
<1>2. IF e = None \/ ~e.enabled THEN defaultExposure(e) = e
      ELSE /\ defaultExposure(e) # None /\ defaultExposure(e).enabled = e.enabled
           /\ defaultExposure(e).entryPoint = OrElse(e.entryPoint, "websecure")
  <2>1. CASE e # None /\ e.enabled
    <3>1. e \in ExposureManifest
      BY <2>1, ManifestFields
    <3>2. /\ OrElse(e.ingressController, "traefik") \in STRING \cup {None}
          /\ OrElse(e.entryPoint, "websecure") \in STRING \cup {None}
      <4>1. /\ e.ingressController \in STRING \cup {None} /\ e.entryPoint \in STRING \cup {None}
            /\ "traefik" \in STRING /\ "websecure" \in STRING
        BY <3>1, LiteralsAssumption DEF ExposureManifest
      <4> QED BY <4>1 DEF OrElse
    <3> HIDE DEF e
    <3>3. ASSUME NEW i \in STRING \cup {None}, NEW p \in STRING \cup {None}
          PROVE  LET x == [e EXCEPT !.ingressController = i, !.entryPoint = p]
                 IN  x \in ExposureManifest /\ x.enabled = e.enabled /\ x.entryPoint = p
      BY <3>1 DEF ExposureManifest
    <3>4. defaultExposure(e) =
            [e EXCEPT !.ingressController = OrElse(e.ingressController, "traefik"),
                      !.entryPoint = OrElse(e.entryPoint, "websecure")]
      BY <2>1, <3>1 DEF defaultExposure, ExposureManifest
    <3>5. /\ defaultExposure(e) \in ExposureManifest /\ defaultExposure(e).enabled = e.enabled
          /\ defaultExposure(e).entryPoint = OrElse(e.entryPoint, "websecure")
      <4> DEFINE edited(i, p) == [e EXCEPT !.ingressController = i, !.entryPoint = p]
                 controller == OrElse(e.ingressController, "traefik")
                 point == OrElse(e.entryPoint, "websecure")
      <4>1. ASSUME NEW i \in STRING \cup {None}, NEW p \in STRING \cup {None}
            PROVE  /\ edited(i, p) \in ExposureManifest /\ edited(i, p).enabled = e.enabled
                   /\ edited(i, p).entryPoint = p
        BY <3>3
      <4>2. defaultExposure(e) = edited(controller, point)
        BY <3>4
      <4>3. controller \in STRING \cup {None} /\ point \in STRING \cup {None}
        BY <3>2
      <4> HIDE DEF edited, controller, point
      <4>4. /\ defaultExposure(e) \in ExposureManifest /\ defaultExposure(e).enabled = e.enabled
            /\ defaultExposure(e).entryPoint = point
        BY <4>1, <4>2, <4>3
      <4> QED BY <4>4 DEF point
    <3> QED BY <2>1, <3>5, ManifestAssumption
  <2>2. CASE e = None \/ ~e.enabled
    BY <2>2 DEF defaultExposure
  <2> QED BY <2>1, <2>2
<1>3. exposureEnabled(c) <=> exposureEnabled(s)
  BY <1>1, <1>2 DEF exposureEnabled
<1>4. exposureEnabled(s) =>
        c.exposure.entryPoint = OrElse(s.exposure.entryPoint, "websecure")
  BY <1>1, <1>2 DEF exposureEnabled
<1> HIDE DEF c
<1> QED BY <1>1, <1>3, <1>4, DefaultTwice, EffectiveSame DEF c

\* The image is the exception.
LEMMA ImagesDiffer ==
  ASSUME NEW m, TemplateManifest(m)
  PROVE  ImagesAgree(m) <=>
           IF "buildkitImage" \in DOMAIN m.set THEN m.set["buildkitImage"] # None
           ELSE m.rootless = TRUE
<1> DEFINE f == "buildkitImage"
           t == UndefaultedTemplate(m)
<1>1. f \in Fields
  BY RolloutAssumption DEF OptionalFields
<1>2. RootImage # None /\ RootlessImage # None /\ RootImage # RootlessImage
  <2>1. RootImage \in Seq(STRING) /\ RootlessImage \in Seq(STRING)
    BY OneWord, LiteralsAssumption DEF RootImage, RootlessImage
  <2>2. RootImage[1] # RootlessImage[1]
    BY DEF RootImage, RootlessImage
  <2> QED BY <2>1, <2>2, ManifestAssumption
<1>3. StoredTemplate(m).set[f] = IF f \in DOMAIN m.set THEN m.set[f] ELSE RootlessImage
  BY <1>1 DEF StoredTemplate
<1>4. t.set[f] = (IF f \in DOMAIN m.set THEN m.set[f] ELSE None)
  BY <1>1 DEF UndefaultedTemplate
<1>5. t.rootless = OrElse(m.rootless, FALSE)
  BY DEF UndefaultedTemplate
<1>6. DefaultTemplate(t).set[f] =
        IF t.set[f] # None THEN t.set[f] ELSE IF t.rootless THEN RootlessImage ELSE RootImage
  <2>1. /\ t = [rootless |-> t.rootless, set |-> t.set]
        /\ t.set \in [Fields -> {t.set[g] : g \in Fields}]
    BY DEF UndefaultedTemplate
  <2> HIDE DEF t
  <2> QED BY <1>1, <2>1 DEF DefaultTemplate
<1>7. m.rootless \in BOOLEAN \cup {None} /\ None \notin BOOLEAN
  BY ManifestAssumption DEF TemplateManifest
<1>8. t.rootless <=> m.rootless = TRUE
  <2>1. CASE m.rootless = None
    BY <1>5, <1>7, <2>1, Zenon DEF OrElse
  <2>2. CASE m.rootless = TRUE
    BY <1>5, <1>7, <2>2, Zenon DEF OrElse
  <2>3. CASE m.rootless = FALSE
    BY <1>5, <1>7, <2>3, Zenon DEF OrElse
  <2> QED BY <1>7, <2>1, <2>2, <2>3
<1> HIDE DEF t
<1> QED BY <1>2, <1>3, <1>4, <1>6, <1>8 DEF ImagesAgree, t

LEMMA SameDefaults == RolloutInv => DefaultsAgree
<1> SUFFICES ASSUME RolloutInv, manifest # None
             PROVE  /\ Effective(StoredBuilder(manifest.builder)) = Effective(manifest.builder)
                    /\ Effective(DefaultBuilder(manifest.builder)) = Effective(manifest.builder)
                    /\ manifest.template # None =>
                         LET m == manifest.template
                         IN  ImagesAgree(m) <=>
                               IF "buildkitImage" \in DOMAIN m.set
                               THEN m.set["buildkitImage"] # None ELSE m.rootless = TRUE
  BY DEF DefaultsAgree
<1>1. IsManifest(manifest)
  BY DEF RolloutInv, FromManifest
<1>2. BuilderManifest(manifest.builder)
  BY <1>1 DEF IsManifest
<1>3. manifest.template # None => TemplateManifest(manifest.template)
  BY <1>1 DEF IsManifest
<1> QED BY <1>2, <1>3, StoredEffective, WebhookEffective, ImagesDiffer

\* Schema, webhook and controller give an absent field the same meaning.
THEOREM DefaultsAreOne == Spec => []DefaultsAgree
BY SameDefaults, RolloutInvariant, PTL

-----------------------------------------------------------------------------
(* Other builders of the namespace.                                        *)

\* What two sequences have in common at one end can be taken away.
LEMMA CancelLeft ==
  ASSUME NEW S, NEW s \in Seq(S), NEW t \in Seq(S), NEW u \in Seq(S), s \o t = s \o u
  PROVE  t = u
<1>1. /\ Len(s) \in Nat /\ Len(t) \in Nat /\ Len(u) \in Nat
      /\ Len(t) = Len(u)
  BY ConcatProperties, LenProperties
<1>2. ASSUME NEW i \in 1 .. Len(t) PROVE t[i] = u[i]
  <2>1. Len(s) + i \in 1 .. Len(s) + Len(t) /\ ~(Len(s) + i <= Len(s))
    BY <1>1
  <2>2. (s \o t)[Len(s) + i] = t[Len(s) + i - Len(s)]
    BY <2>1, ConcatProperties
  <2>3. (s \o u)[Len(s) + i] = u[Len(s) + i - Len(s)]
    BY <1>1, <2>1, ConcatProperties
  <2>4. Len(s) + i - Len(s) = i
    BY <1>1
  <2> QED BY <2>2, <2>3, <2>4
<1> QED BY <1>1, <1>2, SeqEqual

LEMMA CancelRight ==
  ASSUME NEW S, NEW s \in Seq(S), NEW t \in Seq(S), NEW u \in Seq(S), t \o s = u \o s
  PROVE  t = u
<1>1. /\ Len(s) \in Nat /\ Len(t) \in Nat /\ Len(u) \in Nat
      /\ Len(t) = Len(u)
  BY ConcatProperties, LenProperties
<1>2. ASSUME NEW i \in 1 .. Len(t) PROVE t[i] = u[i]
  <2>1. i \in 1 .. Len(t) + Len(s) /\ i <= Len(t) /\ i \in 1 .. Len(u) + Len(s)
    BY <1>1
  <2>2. (t \o s)[i] = t[i] /\ (u \o s)[i] = u[i]
    BY <1>1, <2>1, ConcatProperties
  <2> QED BY <2>2
<1> QED BY <1>1, <1>2, SeqEqual

\* Two names with the same suffix are of the same builder.
LEMMA NamedOnce ==
  ASSUME NEW a, NEW c, NEW suffix \in Seq(STRING), a.name \in Seq(STRING), c.name \in Seq(STRING)
  PROVE  Named(a, suffix) = Named(c, suffix) <=> a.name = c.name
<1>1. <<"builder">> \in Seq(STRING)
  BY OneWord, LiteralsAssumption
<1>2. <<"builder">> \o a.name \in Seq(STRING) /\ <<"builder">> \o c.name \in Seq(STRING)
  BY <1>1, Joined, Zenon
<1>3. Named(a, suffix) = Named(c, suffix) =>
        <<"builder">> \o a.name = <<"builder">> \o c.name
  BY <1>2, CancelRight, Zenon DEF Named
<1>4. <<"builder">> \o a.name = <<"builder">> \o c.name => a.name = c.name
  BY <1>1, CancelLeft, Zenon
<1> QED BY <1>3, <1>4, Zenon DEF Named

\* A name without a suffix is one with -client just when the builder's name
\* ends so itself.
LEMMA NamedClient ==
  ASSUME NEW a, NEW c, a.name \in Seq(STRING), c.name \in Seq(STRING)
  PROVE  Named(a, <<>>) = Named(c, <<"client">>) <=> a.name = c.name \o <<"client">>
<1>1. /\ <<"builder">> \in Seq(STRING) /\ <<"client">> \in Seq(STRING)
      /\ <<>> \in Seq(STRING)
  BY OneWord, LiteralsAssumption, EmptySeq
<1>2. c.name \o <<"client">> \in Seq(STRING) /\ <<"builder">> \o a.name \in Seq(STRING)
  BY <1>1, Joined, Zenon
<1>3. Named(a, <<>>) = <<"builder">> \o a.name
  BY <1>2, ConcatEmptySeq, Zenon DEF Named
<1>4. Named(c, <<"client">>) = <<"builder">> \o (c.name \o <<"client">>)
  <2>1. \A s, t, u \in Seq(STRING) : (s \o t) \o u = s \o (t \o u)
    BY ConcatAssociative
  <2>2. Named(c, <<"client">>) = (<<"builder">> \o c.name) \o <<"client">>
    BY DEF Named
  <2> QED BY <1>1, <2>1, <2>2, Zenon
<1> QED BY <1>1, <1>2, <1>3, <1>4, CancelLeft, Zenon

\* No name is one that has -client behind it, twice over or not at all.
LEMMA ClientLonger ==
  ASSUME NEW m \in Seq(STRING), NEW n \in Seq(STRING), m = n \o <<"client">>
  PROVE  m # n /\ n # m \o <<"client">>
<1>1. <<"client">> \in Seq(STRING) /\ Len(<<"client">>) = 1
  BY OneWord, LiteralsAssumption
<1>2. Len(m) = Len(n) + 1 /\ Len(m \o <<"client">>) = Len(m) + 1
  BY <1>1, ConcatProperties
<1>3. Len(m) \in Nat /\ Len(n) \in Nat
  BY LenProperties
<1> QED BY <1>2, <1>3

\* Seven things are seven.
LEMMA Seven ==
  ASSUME NEW a, NEW b, NEW c, NEW d, NEW e, NEW f, NEW g,
         b \notin {a}, c \notin {a, b}, d \notin {a, b, c}, e \notin {a, b, c, d},
         f \notin {a, b, c, d, e}, g \notin {a, b, c, d, e, f}
  PROVE  Cardinality({a, b, c, d, e, f, g}) = 7
<1>1. IsFiniteSet({a}) /\ Cardinality({a}) = 1
  BY FS_Singleton
<1>2. ASSUME NEW S, IsFiniteSet(S), NEW x, x \notin S, NEW T, T = S \cup {x}
      PROVE  IsFiniteSet(T) /\ Cardinality(T) = Cardinality(S) + 1
  BY <1>2, FS_AddElement
<1>3. IsFiniteSet({a, b}) /\ Cardinality({a, b}) = 2
  <2>1. {a, b} = {a} \cup {b}
    OBVIOUS
  <2> QED BY <1>1, <1>2, <2>1
<1>4. IsFiniteSet({a, b, c}) /\ Cardinality({a, b, c}) = 3
  <2>1. {a, b, c} = {a, b} \cup {c}
    OBVIOUS
  <2> QED BY <1>2, <1>3, <2>1
<1>5. IsFiniteSet({a, b, c, d}) /\ Cardinality({a, b, c, d}) = 4
  <2>1. {a, b, c, d} = {a, b, c} \cup {d}
    OBVIOUS
  <2> QED BY <1>2, <1>4, <2>1
<1>6. IsFiniteSet({a, b, c, d, e}) /\ Cardinality({a, b, c, d, e}) = 5
  <2>1. {a, b, c, d, e} = {a, b, c, d} \cup {e}
    OBVIOUS
  <2> QED BY <1>2, <1>5, <2>1
<1>7. IsFiniteSet({a, b, c, d, e, f}) /\ Cardinality({a, b, c, d, e, f}) = 6
  <2>1. {a, b, c, d, e, f} = {a, b, c, d, e} \cup {f}
    OBVIOUS
  <2> QED BY <1>2, <1>6, <2>1
<1>8. {a, b, c, d, e, f, g} = {a, b, c, d, e, f} \cup {g}
  OBVIOUS
<1> QED BY <1>2, <1>7, <1>8

\* The objects of a builder, by kind and name.
LEMMA ObjectsListed ==
  ASSUME NEW b
  PROVE  ObjectsOf(b) =
           {Object("ConfigMap", configMapName(b)), Object("PersistentVolumeClaim", cacheName(b)),
            Object("StatefulSet", headlessName(b)), Object("Service", headlessName(b)),
            Object("Service", clientName(b)), Object("Secret", builderTLSSecretName(b)),
            Object("IngressRouteTCP", headlessName(b))}
BY DEF ObjectsOf, ConfigMap, Claim, Workload, Services, ExposureParts

LEMMA ObjectOnce ==
  ASSUME NEW k1, NEW k2, NEW n1, NEW n2
  PROVE  Object(k1, n1) = Object(k2, n2) <=> k1 = k2 /\ n1 = n2
BY DEF Object

\* A builder has seven objects: its two Services are the only ones of a kind.
LEMMA SevenObjects ==
  ASSUME NEW b, b.name \in Seq(STRING)
  PROVE  Cardinality(ObjectsOf(b)) = 7
<1>1. headlessName(b) # clientName(b)
  BY NamedClient, ClientLonger DEF headlessName, clientName
<1> DEFINE a == Object("ConfigMap", configMapName(b))
           c == Object("PersistentVolumeClaim", cacheName(b))
           d == Object("StatefulSet", headlessName(b))
           e == Object("Service", headlessName(b))
           f == Object("Service", clientName(b))
           g == Object("Secret", builderTLSSecretName(b))
           h == Object("IngressRouteTCP", headlessName(b))
<1>2. /\ c \notin {a} /\ d \notin {a, c} /\ e \notin {a, c, d} /\ f \notin {a, c, d, e}
      /\ g \notin {a, c, d, e, f} /\ h \notin {a, c, d, e, f, g}
  BY <1>1, ObjectOnce
<1>3. ObjectsOf(b) = {a, c, d, e, f, g, h}
  BY ObjectsListed
<1> HIDE DEF a, c, d, e, f, g, h
<1>4. Cardinality({a, c, d, e, f, g, h}) = 7
  BY <1>2, Seven
<1> QED BY <1>3, <1>4

\* Of two builders only the Services can have a name in common.
LEMMA OnlyServicesMeet ==
  ASSUME NEW b, NEW o, b.name \in Seq(STRING), o.name \in Seq(STRING), b.name # o.name
  PROVE  ObjectsOf(b) \cap ObjectsOf(o) =
           (IF o.name = b.name \o <<"client">> THEN {Object("Service", clientName(b))} ELSE {})
             \cup
           (IF b.name = o.name \o <<"client">> THEN {Object("Service", headlessName(b))} ELSE {})
<1>1. /\ <<>> \in Seq(STRING) /\ <<"client">> \in Seq(STRING) /\ <<"tls">> \in Seq(STRING)
      /\ <<"cache">> \in Seq(STRING) /\ <<"buildkitd">> \in Seq(STRING)
  BY OneWord, LiteralsAssumption, EmptySeq
<1>2. /\ headlessName(b) # headlessName(o) /\ clientName(b) # clientName(o)
      /\ builderTLSSecretName(b) # builderTLSSecretName(o)
      /\ cacheName(b) # cacheName(o) /\ configMapName(b) # configMapName(o)
  BY <1>1, NamedOnce
     DEF headlessName, clientName, builderTLSSecretName, cacheName, configMapName
<1>3. /\ headlessName(o) = clientName(b) <=> o.name = b.name \o <<"client">>
      /\ headlessName(b) = clientName(o) <=> b.name = o.name \o <<"client">>
  BY NamedClient DEF headlessName, clientName
<1>4. ASSUME NEW x \in ObjectsOf(b) \cap ObjectsOf(o)
      PROVE  \/ x = Object("Service", clientName(b)) /\ headlessName(o) = clientName(b)
             \/ x = Object("Service", headlessName(b)) /\ headlessName(b) = clientName(o)
  BY <1>2, <1>4, ObjectsListed, ObjectOnce
<1>5. /\ Object("Service", clientName(b)) \in ObjectsOf(b)
      /\ Object("Service", headlessName(b)) \in ObjectsOf(b)
      /\ Object("Service", clientName(o)) \in ObjectsOf(o)
      /\ Object("Service", headlessName(o)) \in ObjectsOf(o)
  BY ObjectsListed
<1> QED BY <1>3, <1>4, <1>5

LEMMA NamesDiffer == RolloutInv => NamesApart
<1> SUFFICES ASSUME RolloutInv, builder # None
             PROVE  /\ Cardinality(ObjectsOf(builder)) = 7
                    /\ \A n \in OtherNames \ {builder.name} :
                         ObjectsOf(builder) \cap ObjectsOf(Other(n, <<>>)) =
                           CASE n = builder.name \o <<"client">> ->
                                  {Object("Service", clientName(builder))}
                             [] builder.name = n \o <<"client">> ->
                                  {Object("Service", headlessName(builder))}
                             [] OTHER -> {}
  BY DEF NamesApart
<1>1. builder.name \in Seq(STRING)
  BY BuilderFields DEF RolloutInv, FromManifest
<1>2. ASSUME NEW n \in OtherNames \ {builder.name}
      PROVE  ObjectsOf(builder) \cap ObjectsOf(Other(n, <<>>)) =
               CASE n = builder.name \o <<"client">> ->
                      {Object("Service", clientName(builder))}
                 [] builder.name = n \o <<"client">> ->
                      {Object("Service", headlessName(builder))}
                 [] OTHER -> {}
  <2>1. n \in Seq(STRING) /\ Other(n, <<>>).name = n /\ n # builder.name
    BY ManifestAssumption DEF Other
  <2>2. ObjectsOf(builder) \cap ObjectsOf(Other(n, <<>>)) =
          (IF n = builder.name \o <<"client">> THEN {Object("Service", clientName(builder))}
           ELSE {})
            \cup
          (IF builder.name = n \o <<"client">> THEN {Object("Service", headlessName(builder))}
           ELSE {})
    BY <1>1, <2>1, OnlyServicesMeet
  <2>3. ~(n = builder.name \o <<"client">> /\ builder.name = n \o <<"client">>)
    BY <1>1, <2>1, ClientLonger
  <2>4. CASE n = builder.name \o <<"client">>
    BY <2>2, <2>3, <2>4
  <2>5. CASE builder.name = n \o <<"client">>
    BY <2>2, <2>3, <2>5
  <2>6. CASE n # builder.name \o <<"client">> /\ builder.name # n \o <<"client">>
    BY <2>2, <2>6
  <2> QED BY <2>4, <2>5, <2>6
<1> QED BY <1>1, <1>2, SevenObjects

\* Two builders share an object just when one is called like the other's client.
THEOREM NamesKeptApart == Spec => []NamesApart
BY NamesDiffer, RolloutInvariant, PTL

\* The operator's label is the name the builder's pods go by.
LEMMA NameLabel ==
  ASSUME NEW b
  PROVE  /\ LabelKeyBuilderName \in DOMAIN labelsForBuilder(b)
         /\ labelsForBuilder(b)[LabelKeyBuilderName] = PodsAre(b)
BY DEF labelsForBuilder, PodsAre

\* The endpoint's selector is that one label.
LEMMA EndpointLabel ==
  ASSUME NEW b, NEW c
  PROVE  Selects(EndpointSelector(b), labelsForBuilder(c)) <=> PodsAre(c) = b.name
<1>1. /\ DOMAIN EndpointSelector(b) = {LabelKeyBuilderName}
      /\ EndpointSelector(b)[LabelKeyBuilderName] = b.name
  BY DEF EndpointSelector
<1> QED BY <1>1, NameLabel DEF Selects

LEMMA SelectorsDiffer == RolloutInv => SelectorsApart
<1> SUFFICES ASSUME RolloutInv, Settled
             PROVE  /\ Selects(EndpointSelector(builder), sts.labels)
                         <=> PodsAre(builder) = builder.name
                    /\ \A n \in OtherNames \ {builder.name}, labels \in LabelSets :
                         LET other == Other(n, labels)
                         IN  /\ Selects(EndpointSelector(builder), labelsForBuilder(other))
                                  <=> PodsAre(other) = builder.name
                             /\ Selects(sts.labels, labelsForBuilder(other)) =>
                                  /\ PodsAre(other) = PodsAre(builder)
                                  /\ PodsAre(other) # n \/ PodsAre(builder) # builder.name
  BY DEF SelectorsApart, Selects
<1>1. sts.labels = labelsForBuilder(builder)
  BY WhenSettled DEF WorkloadDone
<1>2. ASSUME NEW n \in OtherNames \ {builder.name}, NEW labels \in LabelSets,
             NEW other, other = Other(n, labels),
             Selects(sts.labels, labelsForBuilder(other))
      PROVE  /\ PodsAre(other) = PodsAre(builder)
             /\ PodsAre(other) # n \/ PodsAre(builder) # builder.name
  BY <1>1, <1>2, NameLabel DEF Selects
<1> QED BY <1>1, <1>2, EndpointLabel

\* SelectorsApart: the endpoint lookup and the Services of a builder reach the
\* pods of another one only if a label of one of them says so.
THEOREM SelectorsKeptApart == Spec => []SelectorsApart
BY SelectorsDiffer, RolloutInvariant, PTL

=============================================================================
