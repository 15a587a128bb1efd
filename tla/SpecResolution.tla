--------------------------- MODULE SpecResolution ---------------------------
(***************************************************************************)
(* The specification a builder asks for, and how the controller resolves   *)
(* it against the template it names (resolveSpec and mergeSpec of          *)
(* internal/controller/buildkitbuilder_controller.go).                     *)
(*                                                                         *)
(* A template is the value of its rootless flag and, for every optional    *)
(* field, either a setting or None.  The settings are uninterpreted: the   *)
(* empty string, the nil map and the empty resource list are all None.     *)
(***************************************************************************)
EXTENDS Naturals

CONSTANTS
  Fields,      \* the optional fields of a template an instance tells apart
  None,        \* the absent value: a nil pointer, an empty string, NotFound
  Settings,    \* values an optional field of a template may be set to
  PVCSettings, \* those cacheConfig values with type pvc and a pvc section
  Hosts,       \* external host names
  LabelSets    \* the spec.labels maps; DesiredObjects takes them as filtered

OptionalFields == {"buildkitImage", "resources", "nodeSelector", "tolerations",
                   "affinity", "buildkitdToml", "cacheConfig", "arch"}

ASSUME SettingsAssumption ==
  /\ {"buildkitdToml", "cacheConfig"} \subseteq Fields
  /\ Fields \subseteq OptionalFields
  /\ PVCSettings \subseteq Settings
  /\ None \notin Settings \cup Hosts \cup LabelSets

BuildkitBuilderTemplateSpec ==
  [rootless: BOOLEAN, set: [Fields -> Settings \cup {None}]]

ExposureConfig == [enabled: BOOLEAN, host: Hosts \cup {None}]

\* templateRef says whether the builder names the template of its namespace.
\* A negative number of replicas, which nothing before the StatefulSet refuses,
\* is BuilderRollout's; so are labels and names the API server does not take.
BuildkitBuilderSpec ==
  [mode: {"persistent", "sleepy"},
   replicas: Nat,
   labels: LabelSets,
   exposure: ExposureConfig \cup {None},
   templateRef: BOOLEAN,
   template: BuildkitBuilderTemplateSpec \cup {None}]

-----------------------------------------------------------------------------

\* The zero value mergeSpec starts from when there is no base.
ZeroTemplate == [rootless |-> FALSE, set |-> [f \in Fields |-> None]]

\* Mutant: rootless is merged like the other fields.
mergeSpecRootless(base, override) ==
  [rootless |-> base.rootless /\ override.rootless,
   set |-> [f \in Fields |->
              IF override.set[f] # None THEN override.set[f] ELSE base.set[f]]]

\* A set field of the override wins; rootless is copied whatever it is.
mergeSpec(base, override) ==
  [rootless |-> override.rootless,
   set |-> [f \in Fields |->
              IF override.set[f] # None THEN override.set[f] ELSE base.set[f]]]

\* Mutant: the NotFound of the named template is ignored.
UnresolvableWithoutBoth(s, template) == ~s.templateRef /\ s.template = None

\* resolveSpec returns an error: the named template does not exist, or the
\* builder has neither a reference nor an inline template.
Unresolvable(s, template) ==
  \/ s.templateRef /\ template = None
  \/ ~s.templateRef /\ s.template = None

resolveSpec(s, template) ==
  LET base == IF s.templateRef THEN template ELSE ZeroTemplate
  IN  IF s.template = None THEN base ELSE mergeSpec(base, s.template)

exposureEnabled(s) == s.exposure # None /\ s.exposure.enabled

UsesPVC(template) == template.set["cacheConfig"] \in PVCSettings

=============================================================================
