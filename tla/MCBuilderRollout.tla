--------------------------- MODULE MCBuilderRollout ---------------------------
(***************************************************************************)
(* Manifests for TLC: templates and inline templates in many combinations, *)
(* and every short buildkitd.toml.                                         *)
(***************************************************************************)
EXTENDS BuilderRollout

CONSTANTS h1, h2, h3

MCFields == OptionalFields \ {"resources", "tolerations", "affinity"}

\* A key with a blank, a value and a name that are too long or have a dot, a
\* size below zero, an architecture with its system, a host that is not ASCII.
MCUnfit == {"no key", "too long", "dotted.name", "-1Gi", "linux/amd64", h3}

MCPVCSettings ==
  {<<"pvc", "100Gi">>, <<"pvc", "">>, <<"pvc", "large">>, <<"pvc", "-1Gi">>}
Caches == MCPVCSettings \cup
  {<<"none">>, <<"pvc">>, <<"s3">>, <<"s3", "">>, <<"s3", "bucket">>, <<"s3", "bucket", "creds">>,
   <<"s3", "bucket", "too long">>}

Lines == Headers \cup TcpLines \cup TlsLines \cup {"address unix", "debug", "mounted certificates"}
ShortTomls == UNION {[1..n -> Lines] : n \in 1..2}
Tomls == ShortTomls \cup [1..3 -> Lines]

Selectors == {<<"kubernetes.io/arch", "amd64">>, <<"disktype", "ssd">>, <<"disktype", "too long">>}
Archs == {<<"arm64">>, <<"linux/amd64">>}
Images == {RootImage}

MCSettings == Caches \cup Tomls \cup Selectors \cup Archs \cup Images

\* Manifests of templates.
TemplateM(rootless, set) == [rootless |-> rootless, set |-> set]

Optional(f, values) == {<<>>} \cup {f :> v : v \in values}

PlainTemplateM == TemplateM(None, "cacheConfig" :> <<"none">>)

SomeTemplates ==
  {TemplateM(r, i @@ ("cacheConfig" :> c)) :
     r \in {None, FALSE}, i \in Optional("buildkitImage", {None, RootImage}), c \in Caches}
  \cup
  {TemplateM(None, a @@ s @@ ("cacheConfig" :> <<"none">>)) :
     a \in Optional("arch", Archs), s \in Optional("nodeSelector", Selectors)}
  \cup {TemplateM(TRUE, <<>>)}

InlineTemplates ==
  {None, PlainTemplateM,
   TemplateM(FALSE, [cacheConfig |-> <<"pvc">>, arch |-> <<"arm64">>, buildkitdToml |-> <<"debug">>]),
   TemplateM(TRUE, [cacheConfig |-> <<"pvc", "large">>, buildkitImage |-> None])}

\* Manifests of builders.
Exposure(enabled, host, controller) ==
  [enabled |-> enabled, host |-> host, ingressController |-> controller, entryPoint |-> None]

Exposure1 == Exposure(TRUE, h1, "traefik")
Exposure2 == Exposure(TRUE, h2, "traefik")

SomeExposures ==
  {None, Exposure1, Exposure(FALSE, h1, None), Exposure(TRUE, None, None),
   Exposure(TRUE, h1, "nginx"), Exposure(TRUE, h3, None)}

Replicated(n, mode, replicas, tn, inline, exposure, labels) ==
  [name |-> n, templateName |-> tn,
   spec |-> [mode |-> mode, replicas |-> replicas, idleTimeoutSeconds |-> None,
             labels |-> labels, exposure |-> exposure,
             templateRef |-> tn # None, template |-> inline]]

BuilderM(n, mode, tn, inline, exposure, labels) ==
  Replicated(n, mode, None, tn, inline, exposure, labels)

MCNames == {<<"x">>, <<"y">>, <<"x", "client">>, <<"x", "tls">>, <<"x", "cache">>,
            <<"x", "buildkitd">>, <<"x", "client", "client">>, <<"dotted.name">>}

LabelMaps ==
  {k :> v : k \in {LabelKeyBuilderName, "team"}, v \in {<<"x">>, <<"y">>, <<"linux/amd64">>}}
  \cup {LabelKeyBuilderMode :> <<"persistent">>, <<>>, "no key" :> <<"x">>,
        "team" :> <<"too long">>}

Pair(t, b) == [template |-> t, builder |-> b]

\* Templates with all kinds of builders, every buildkitd.toml, and names with
\* labels.
MCManifests ==
  {Pair(t, BuilderM(<<"x">>, "persistent", <<"t">>, i, e, <<>>)) :
     t \in SomeTemplates, i \in InlineTemplates, e \in {None, Exposure1}}
  \cup
  {Pair(t, BuilderM(<<"x">>, "persistent", <<"t">>, None, e, <<>>)) :
     t \in SomeTemplates, e \in SomeExposures}
  \cup
  {Pair(t, BuilderM(<<"x">>, "sleepy", tn, i, e, <<>>)) :
     t \in {None, PlainTemplateM}, tn \in {None, <<>>, <<"t">>},
     i \in InlineTemplates, e \in SomeExposures}
  \cup
  {Pair(TemplateM(TRUE, [cacheConfig |-> <<"none">>, buildkitdToml |-> text]),
        BuilderM(<<"x">>, "persistent", <<"t">>, None, e, <<>>)) :
     text \in ShortTomls, e \in {None, Exposure1}}
  \cup
  {Pair(TemplateM(TRUE, [cacheConfig |-> <<"none">>, buildkitdToml |-> text]),
        BuilderM(<<"x">>, "persistent", <<"t">>, None, None, <<>>)) : text \in Tomls}
  \cup
  {Pair(PlainTemplateM, BuilderM(n, "sleepy", <<"t">>, None, None, labels)) :
     n \in MCNames, labels \in LabelMaps}
  \cup
  {Pair(PlainTemplateM, Replicated(<<"x">>, mode, -1, <<"t">>, None, None, <<>>)) :
     mode \in {"persistent", "sleepy"}}

MCExposures == {None, Exposure1}

\* One exposed builder, moved to another host.
ExposedManifests ==
  {Pair(PlainTemplateM, BuilderM(<<"x">>, "persistent", <<"t">>, None, Exposure1, <<>>))}

BothHosts == {Exposure1, Exposure2}

=============================================================================
