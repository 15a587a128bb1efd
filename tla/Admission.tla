------------------------------ MODULE Admission ------------------------------
(***************************************************************************)
(* What happens to a manifest before the controller reads it: the schema   *)
(* of the CRDs, whose defaults and required fields the API server applies, *)
(* and the admission webhooks of api/.  The manager does not serve the     *)
(* webhooks (cmd/main.go registers neither); they are judged here against  *)
(* the schema and against what Reconcile does with the same objects.       *)
(*                                                                         *)
(* A manifest has the shape of the object it becomes, but a field may be   *)
(* left out: it is None then, and the settings of a template are those in  *)
(* the domain of set.  A setting written as the empty string is None, as   *)
(* in SpecResolution.                                                      *)
(***************************************************************************)
EXTENDS Integers, PodRendering

RootlessImage == <<"moby/buildkit:master-rootless">>
RootImage     == <<"moby/buildkit:master">>

OrElse(value, default) == IF value = None THEN default ELSE value

-----------------------------------------------------------------------------
(* What users write.                                                       *)

\* A setting that code reads word by word has the words: nodeSelector its key
\* and its value, any other at least one.
WellShaped(set) ==
  \A f \in DOMAIN set :
    set[f] # None => Len(set[f]) >= IF f = "nodeSelector" THEN 2 ELSE 1

TemplateManifest(m) ==
  /\ \E named \in SUBSET Fields :
       m \in [rootless: BOOLEAN \cup {None}, set: [named -> Settings \cup {None}]]
  /\ WellShaped(m.set)

ExposureManifest ==
  [enabled: BOOLEAN, host: Hosts \cup {None},
   ingressController: STRING \cup {None}, entryPoint: STRING \cup {None}]

\* templateRef says whether templateName is there. Neither the number of
\* replicas nor the idle timeout has a minimum.
BuilderManifest(m) ==
  /\ m \in [name: Seq(STRING), templateName: Seq(STRING) \cup {None},
            spec: [mode: {"persistent", "sleepy"}, replicas: Int \cup {None},
                   idleTimeoutSeconds: Int \cup {None}, labels: LabelSets,
                   exposure: ExposureManifest \cup {None}, templateRef: BOOLEAN,
                   template: {m.spec.template}]]
  /\ m.spec.template # None => TemplateManifest(m.spec.template)
  /\ m.spec.templateRef <=> m.templateName # None

-----------------------------------------------------------------------------
(* The schema of the CRDs.                                                 *)

\* cacheConfig and its type are required.
TemplateAccepted(m) == "cacheConfig" \in DOMAIN m.set /\ m.set["cacheConfig"] # None

BuilderAccepted(m) ==
  /\ m.spec.template # None => TemplateAccepted(m.spec.template)
  /\ m.spec.exposure # None => m.spec.exposure.ingressController \in {None, "traefik"}

StoredTemplate(m) ==
  [rootless |-> OrElse(m.rootless, TRUE),
   set |-> [f \in Fields |->
              IF f \in DOMAIN m.set THEN m.set[f]
              ELSE IF f = "buildkitImage" THEN RootlessImage ELSE None]]

\* The template as the webhook would see it without the schema's defaults.
UndefaultedTemplate(m) ==
  [rootless |-> OrElse(m.rootless, FALSE),
   set |-> [f \in Fields |-> IF f \in DOMAIN m.set THEN m.set[f] ELSE None]]

StoredExposure(e) ==
  IF e = None THEN None
  ELSE [e EXCEPT !.ingressController = OrElse(e.ingressController, "traefik")]

StoredSpec(s) ==
  [s EXCEPT !.replicas = OrElse(s.replicas, 1),
            !.idleTimeoutSeconds = OrElse(s.idleTimeoutSeconds, 300),
            !.exposure = StoredExposure(s.exposure),
            !.template = IF s.template = None THEN None ELSE StoredTemplate(s.template)]

StoredBuilder(m) == [m EXCEPT !.spec = StoredSpec(m.spec)]

-----------------------------------------------------------------------------
(* The webhook of builders.                                                *)

defaultExposure(exposure) ==
  IF exposure = None \/ ~exposure.enabled THEN exposure
  ELSE [exposure EXCEPT !.ingressController = OrElse(@, "traefik"),
                        !.entryPoint = OrElse(@, "websecure")]

\* Mutant: the webhook and the schema have different idle timeouts.
DefaultSpecInMinutes(s) ==
  [s EXCEPT
     !.replicas = OrElse(@, 1),
     !.idleTimeoutSeconds = IF s.mode = "sleepy" THEN OrElse(@, 5) ELSE @,
     !.exposure = defaultExposure(@)]

DefaultSpec(s) ==
  [s EXCEPT
     !.replicas = OrElse(@, 1),
     !.idleTimeoutSeconds = IF s.mode = "sleepy" THEN OrElse(@, 300) ELSE @,
     !.exposure = defaultExposure(@)]

DefaultBuilder(b) == [b EXCEPT !.spec = DefaultSpec(b.spec)]

\* Mutant: the host is not required.
validateExposureAnyHost(s) ==
  exposureEnabled(s) => s.exposure.ingressController \in {None, "traefik"}

validateExposure(s) ==
  exposureEnabled(s) =>
    s.exposure.host # None /\ s.exposure.ingressController \in {None, "traefik"}

\* The reference and the inline template may not both be missing, and a
\* reference may not be the empty string, which is <<>> here.
validateBuilder(b) ==
  /\ b.templateName # None \/ b.spec.template # None
  /\ b.templateName # <<>>
  /\ validateExposure(b.spec)

-----------------------------------------------------------------------------
(* The webhook of templates.                                               *)

\* The schema has filled in an image before, unless it was written as "".
DefaultTemplate(t) ==
  IF t.set["buildkitImage"] # None THEN t
  ELSE [t EXCEPT !.set["buildkitImage"] =
                    IF t.rootless THEN RootlessImage ELSE RootImage]

\* Mutant: the section of the type is not asked for.
validateTemplateType(t) == TRUE

\* A type comes with its section: <<"pvc", size>>, <<"s3", bucket, secretRef>>.
validateTemplate(t) ==
  LET cache == t.set["cacheConfig"]
  IN  cache[1] \in {"pvc", "s3"} => Len(cache) > 1 /\ cache[2] # ""

-----------------------------------------------------------------------------
(* What Reconcile makes of absent values: the constants of its own code.   *)

Effective(b) ==
  [replicas   |-> IF b.spec.mode = "persistent" THEN OrElse(b.spec.replicas, 1) ELSE None,
   timeout    |-> IF b.spec.mode = "sleepy" THEN OrElse(b.spec.idleTimeoutSeconds, 300) ELSE None,
   entryPoint |-> IF exposureEnabled(b.spec)
                  THEN OrElse(b.spec.exposure.entryPoint, "websecure") ELSE None]

=============================================================================
