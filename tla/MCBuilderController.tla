------------------------ MODULE MCBuilderController ------------------------
(***************************************************************************)
(* Small instances of BuilderController for TLC: two templates, and the    *)
(* builder specs each run chooses from.                                    *)
(***************************************************************************)
EXTENDS BuilderProperties

CONSTANTS cachePvc, cacheNone, toml, h1, h2, blue, ip1, ip2

MCSettings == {cachePvc, cacheNone, toml}
MCPVCSettings == {cachePvc}

Template(cache) ==
  [rootless |-> TRUE,
   set |-> [f \in Fields |-> IF f = "cacheConfig" THEN cache ELSE None]]

\* A builder that names the template and is not exposed.
Plain(mode) ==
  [mode |-> mode, replicas |-> 1, labels |-> blue, exposure |-> None,
   templateRef |-> TRUE, template |-> None]

Exposed(mode, host) ==
  [Plain(mode) EXCEPT !.exposure = [enabled |-> TRUE, host |-> host]]

\* Exposure switched on, off, and moved between hosts.
ExposureSpecs ==
  {Plain("persistent"), Exposed("persistent", h1), Exposed("persistent", h2)}

\* The same with an exposure that is refused, because it names no host.
HostlessSpecs ==
  {Plain("persistent"), Exposed("persistent", h1), Exposed("persistent", None)}

\* The template taken as it is, and with another buildkitd.toml.
LifecycleSpecs ==
  {Plain("persistent"),
   [Plain("persistent") EXCEPT !.template =
      [Template(None) EXCEPT !.set["buildkitdToml"] = toml]]}

SleepySpecs == {Plain("sleepy")}

\* The mode edited under a StatefulSet.
BothModes == {Plain("persistent"), Plain("sleepy")}

PlainTemplate == {Template(cacheNone)}
PvcTemplate == {Template(cachePvc)}
LifecycleTemplates == {Template(cachePvc), None}

=============================================================================
