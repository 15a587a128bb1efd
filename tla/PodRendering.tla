---------------------------- MODULE PodRendering ----------------------------
(***************************************************************************)
(* What the controller writes for a builder: names, labels, buildkitd.toml *)
(* and the pod.  DesiredObjects keeps of these objects only what they      *)
(* depend on; here they are built.                                         *)
(*                                                                         *)
(* A name, a label value or a setting is a sequence of words; those of a   *)
(* name are joined by dashes, those of buildkitd.toml are its lines.       *)
(***************************************************************************)
EXTENDS SpecResolution, SequencesExt

-----------------------------------------------------------------------------
(* Names and labels.                                                       *)

Named(b, suffix) == <<"builder">> \o b.name \o suffix

headlessName(b)         == Named(b, <<>>)
configMapName(b)        == Named(b, <<"buildkitd">>)
cacheName(b)            == Named(b, <<"cache">>)
builderTLSSecretName(b) == Named(b, <<"tls">>)
caSecretName            == <<"builderhub", "builder", "ca">>

\* Mutant: the NodePort Service takes the name of the headless one.
clientNameShared(b) == Named(b, <<>>)

clientName(b) == Named(b, <<"client">>)

Object(kind, objectName) == [kind |-> kind, name |-> objectName]

ConfigMap(b)     == Object("ConfigMap", configMapName(b))
Services(b)      == {Object("Service", headlessName(b)), Object("Service", clientName(b))}
ExposureParts(b) == {Object("Secret", builderTLSSecretName(b)),
                     Object("IngressRouteTCP", headlessName(b))}
Claim(b)         == Object("PersistentVolumeClaim", cacheName(b))
Workload(b)      == Object("StatefulSet", headlessName(b))

\* Everything a builder of this name may own.
ObjectsOf(b) ==
  {ConfigMap(b), Claim(b), Workload(b)} \cup Services(b) \cup ExposureParts(b)

LabelKeyBuilderName == "builder.builder-hub.dev/name"
LabelKeyBuilderMode == "builder.builder-hub.dev/mode"

validLabelValue(v) == v # <<"linux/amd64">>

\* Mutant: spec.labels do not replace the operator's own labels.
labelsOperatorFirst(b) ==
  LET valid == {k \in DOMAIN b.spec.labels : validLabelValue(b.spec.labels[k])}
  IN  [k \in {LabelKeyBuilderName, LabelKeyBuilderMode} \cup valid |->
         CASE k = LabelKeyBuilderName -> b.name
           [] k = LabelKeyBuilderMode -> <<b.spec.mode>>
           [] OTHER -> b.spec.labels[k]]

\* A valid entry of spec.labels wins over the operator's own labels.
labelsForBuilder(b) ==
  LET valid == {k \in DOMAIN b.spec.labels : validLabelValue(b.spec.labels[k])}
  IN  [k \in {LabelKeyBuilderName, LabelKeyBuilderMode} \cup valid |->
         IF k \in valid THEN b.spec.labels[k]
         ELSE IF k = LabelKeyBuilderName THEN b.name ELSE <<b.spec.mode>>]

\* A selector picks the pods that have all its labels.
Selects(selector, labels) ==
  \A k \in DOMAIN selector : k \in DOMAIN labels /\ labels[k] = selector[k]

\* The selector resolveStatefulSetEndpoint lists pods by.
EndpointSelector(b) == [k \in {LabelKeyBuilderName} |-> b.name]

-----------------------------------------------------------------------------
(* buildkitd.toml.                                                         *)

\* Lines that open a table, comments, and lines that hold the text tcp:// or
\* [grpc.tls], which the code looks for with strings.Contains.
Headers  == {"[grpc]", "[grpc.tls]", "[worker.oci]"}
Comments == {"# tcp://", "# [grpc.tls]"}
TcpLines == {"address tcp 1234", "address tcp 8080", "# tcp://"}
TlsLines == {"[grpc.tls]", "# [grpc.tls]"}

defaultBuildkitdToml == <<"[grpc]", "address tcp 1234", "[worker.oci]">>

TlsTable == <<"[grpc.tls]", "mounted certificates">>

\* Mutant: the [grpc.tls] table is added whether or not there is one.
buildkitdTomlAlwaysTls(text, exposed) ==
  LET toml   == IF text = None THEN defaultBuildkitdToml ELSE text
      listen == IF ToSet(toml) \cap TcpLines = {}
                THEN <<"[grpc]", "address tcp 1234">> \o toml ELSE toml
  IN  IF exposed THEN listen \o TlsTable ELSE listen

\* ensureBuildkitdConfigMap: the listener goes in front of the user's text,
\* the TLS table behind it.
buildkitdToml(text, exposed) ==
  LET toml   == IF text = None THEN defaultBuildkitdToml ELSE text
      listen == IF ToSet(toml) \cap TcpLines = {}
                THEN <<"[grpc]", "address tcp 1234">> \o toml ELSE toml
  IN  IF exposed /\ ToSet(listen) \cap TlsLines = {} THEN listen \o TlsTable ELSE listen

-----------------------------------------------------------------------------
(* The pod and the volume claim.                                           *)

Volume(kind, objectName, path) == [kind |-> kind, name |-> objectName, path |-> path]

cacheMountPath(template) ==
  IF template.rootless THEN "/home/user/.local/share/buildkit" ELSE "/var/lib/buildkit"

CacheVolume(b, template) ==
  IF UsesPVC(template)
  THEN Volume("PersistentVolumeClaim", cacheName(b), cacheMountPath(template))
  ELSE Volume("EmptyDir", <<>>, cacheMountPath(template))

\* A cacheConfig setting starts with its type; an s3 section that names its
\* credentials is <<"s3", bucket, secretRef>>.
S3Credentials(template) ==
  LET cache == template.set["cacheConfig"]
  IN  IF cache # None /\ cache[1] = "s3" /\ Len(cache) = 3
      THEN {Volume("Secret", <<cache[3]>>, "/etc/buildkit/s3-creds")} ELSE {}

\* Mutant: the pod mounts the Secret by another name than it is created with.
TlsVolumeOther(b) ==
  IF exposureEnabled(b.spec)
  THEN {Volume("Secret", Named(b, <<"cert">>), "/etc/buildkit-tls")} ELSE {}

TlsVolume(b) ==
  IF exposureEnabled(b.spec)
  THEN {Volume("Secret", builderTLSSecretName(b), "/etc/buildkit-tls")} ELSE {}

\* A nodeSelector is a key and its value; that of kubernetes.io/arch wins over
\* the template's arch.
NodeArch(template) ==
  LET selector == template.set["nodeSelector"]
      arch     == template.set["arch"]
      chosen   == selector # None /\ selector[1] = "kubernetes.io/arch"
  IN  CASE chosen -> selector[2]
        [] ~chosen /\ arch # None -> arch[1]
        [] OTHER -> None

buildPodSpec(b, template) ==
  [image   |-> template.set["buildkitImage"],
   nonRoot |-> template.rootless,
   arch    |-> NodeArch(template),
   volumes |-> {Volume("ConfigMap", configMapName(b), "/etc/buildkit"),
                CacheVolume(b, template)}
               \cup TlsVolume(b) \cup S3Credentials(template)]

MountsTls(pod) == \E v \in pod.volumes : v.path = "/etc/buildkit-tls"

\* resource.MustParse panics on a size that is no quantity; the empty size is
\* replaced by a default.
SizeUnparsable(template) ==
  UsesPVC(template) /\ template.set["cacheConfig"][2] = "large"

-----------------------------------------------------------------------------
(* What buildkitd makes of the file it is given.                           *)

\* The table a line belongs to.
TableAt(toml, i) ==
  LET IsHeader(line) == line \in Headers
      j == SelectLastInSubSeq(toml, 1, i, IsHeader)
  IN  IF j = 0 THEN "top" ELSE toml[j]

Key(line) ==
  IF line \in {"address tcp 1234", "address tcp 8080", "address unix"} THEN "address" ELSE line

\* TOML forbids a table or a key of a table that is defined twice.
WellFormed(toml) ==
  \A i, j \in DOMAIN toml :
    i # j /\ toml[i] \notin Comments /\ Key(toml[i]) = Key(toml[j]) =>
      toml[i] \notin Headers /\ TableAt(toml, i) # TableAt(toml, j)

Says(toml, table, line) == \E i \in DOMAIN toml : toml[i] = line /\ TableAt(toml, i) = table

UsesTls(toml) == Says(toml, "[grpc.tls]", "mounted certificates")

\* The daemon starts: its configuration parses, and the files that it names
\* are there.
Starts(toml, pod) ==
  WellFormed(toml) /\ (UsesTls(toml) => MountsTls(pod))

\* It answers the probes, the Services and, when exposed, the route.
Serves(toml, pod, exposed) ==
  /\ Starts(toml, pod)
  /\ Says(toml, "[grpc]", "address tcp 1234")
  /\ UsesTls(toml) = exposed

=============================================================================
