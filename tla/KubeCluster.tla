---------------------------- MODULE KubeCluster ----------------------------
(***************************************************************************)
(* The Kubernetes machinery around the controller, as its code relies on   *)
(* it: the API server with optimistic concurrency, the informer caches     *)
(* client reads come from, and the work queue of one key.                  *)
(*                                                                         *)
(* One namespace with one builder name and one template name, so an object *)
(* is named by its role.  Resource versions are abstracted: the cached     *)
(* copy of n has the current version unless n is in lag, and the worker's  *)
(* own copy of the builder has it when inhand = "current".                 *)
(***************************************************************************)
EXTENDS Naturals, FiniteSets

CONSTANTS
  Lagging,  \* the names whose informer cache may trail the API server
  Resyncs   \* whether the informers' periodic resync is modelled

VARIABLES
  api,      \* api[n]: the object the API server stores under n, or None
  seen,     \* seen[n]: the informer's copy of it
  lag,      \* the names whose informer has not yet seen the last write
  queued,   \* the builder's key is in the work queue
  delayed,  \* the key will be added later (RequeueAfter, or error back-off)
  inhand    \* the worker's copy of the builder: "none", "current", "outdated"

clusterVars == <<api, seen, lag, queued, delayed, inhand>>

Owned == {"cm", "route", "secret", "pvc", "sts"}
Services == {"hsvc", "csvc"}
Children == Owned \cup Services \cup {"ca"}
Names == Children \cup {"builder", "template", "pods"}

\* Unstructured objects are read from the API server, never from a cache.
ASSUME LaggingAssumption ==
  /\ Lagging \subseteq Names \ {"route"}
  /\ Resyncs \in BOOLEAN

\* Mutants: Owns(Secret), Owns(StatefulSet) missing from SetupWithManager.
WatchedWithoutSecrets == {"builder", "sts", "pvc"}
WatchedWithoutStatefulSets == {"builder", "pvc", "secret"}

\* Events on these enqueue the builder's key: SetupWithManager watches the
\* builder and the Pods, StatefulSets, Services, PVCs and Secrets it controls.
\* The pods' controller is the StatefulSet, and the Services have none.
Watched == {"builder", "sts", "pvc", "secret"}

\* The API server moves to the store `new`.  A name gets a new resource
\* version when its object changes, or when it is in `bumped` (a status or a
\* timestamp outside this model changes).  Informers outside Lagging see the
\* write at once.
Store(new, bumped) ==
  LET written == bumped \cup {n \in Names : new[n] # api[n]}
      prompt  == written \ Lagging
  IN  /\ api' = new
      /\ lag' = lag \cup (written \cap Lagging)
      /\ seen' = [n \in Names |-> IF n \in prompt THEN new[n] ELSE seen[n]]
      /\ queued' = (queued \/ prompt \cap Watched # {})

\* The same for a write by somebody other than the worker: a write of the
\* builder outdates the copy the worker holds.
StoreByOthers(new, bumped) ==
  /\ Store(new, bumped)
  /\ inhand' = IF inhand # "none" /\ (new["builder"] # api["builder"] \/ "builder" \in bumped)
               THEN "outdated" ELSE inhand
  /\ UNCHANGED delayed

\* The informer of n catches up and delivers the event.
Sync(n) ==
  /\ n \in lag
  /\ seen' = [seen EXCEPT ![n] = api[n]]
  /\ lag' = lag \ {n}
  /\ queued' = (queued \/ n \in Watched)
  /\ UNCHANGED <<api, delayed, inhand>>

\* The delayed addition of the key falls due.
DelayEnds ==
  /\ delayed
  /\ delayed' = FALSE
  /\ queued' = TRUE
  /\ UNCHANGED <<api, seen, lag, inhand>>

\* The informer replays every object it knows (SyncPeriod, 10 hours).
Resync ==
  /\ Resyncs
  /\ ~queued
  /\ queued' = TRUE
  /\ UNCHANGED <<api, seen, lag, delayed, inhand>>

=============================================================================
