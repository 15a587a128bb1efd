------------------------------ MODULE BuilderTLS ------------------------------
(***************************************************************************)
(* The TLS Secrets of one namespace (internal/controller/tls.go): a CA     *)
(* shared by all its builders and one server certificate per exposed       *)
(* builder, over years of operation.                                       *)
(*                                                                         *)
(* Of a reconcile only the calls on these Secrets are kept, and whether it *)
(* gets that far: a missing template, a ConfigMap or a Service that cannot *)
(* be written ends it before.  The worker takes one builder at a time.     *)
(* Certificates carry the time they have left.  A unit of time is far      *)
(* longer than a reconcile, its retries and the informers' resync period   *)
(* of 10 hours, and shorter than renewBefore.                              *)
(***************************************************************************)
EXTENDS Naturals, FiniteSets

CONSTANTS
  Builders,     \* the builders of the namespace
  Hosts,        \* external host names
  None,         \* the absent value
  Lagging,      \* the Secrets whose informer cache may trail
  Validity,     \* serverValidity, in units of time
  RenewBefore,  \* renewBefore, in units of time
  MaxEdits,     \* bound: edits of the builders' exposure
  MaxFaults,    \* bound: failed calls, restarts, and what is taken away
  MaxMeddling   \* bound: manual edits of Secrets

\* The CA Secret has a name no builder's Secret has.
Secrets == Builders \cup {"ca"}

ASSUME TLSAssumption ==
  /\ "ca" \notin Builders /\ None \notin Builders \cup Hosts
  /\ None \notin [key: Nat, intact: BOOLEAN]
  /\ None \notin [host: Hosts, signer: Nat, left: Nat, intact: BOOLEAN]
  /\ Lagging \subseteq Secrets
  /\ Validity \in Nat /\ RenewBefore \in Nat
  /\ 1 < RenewBefore /\ RenewBefore <= Validity
  /\ MaxEdits \in Nat /\ MaxFaults \in Nat /\ MaxMeddling \in Nat

VARIABLES
  exposure,  \* exposure[n]: the host of builder n, None when not exposed
  api,       \* api[k]: the Secret the API server stores, or None
  seen,      \* seen[k]: the informer's copy
  lag,       \* the Secrets whose informer is behind
  cas,       \* CAs stored so far; the key of the last one
  queue,     \* builders waiting for the worker
  pc,        \* the call the worker is at
  name,      \* the builder it works for
  host,      \* its host, as read at the start of the reconcile
  signer,    \* the key of the CA that ensureNamespaceCA returned
  edits, faults, meddling,
  failing,   \* builders whose reconcile ends before the TLS Secrets
  hindered   \* hindered[n]: units of time that n has been stuck up to now

worker == <<pc, name, host, signer>>
vars == <<exposure, api, seen, lag, cas, queue, worker, edits, faults, meddling,
          failing, hindered>>

Init ==
  /\ exposure = [n \in Builders |-> None]
  /\ api = [k \in Secrets |-> None] /\ seen = api /\ lag = {}
  /\ cas = 0
  /\ queue = {} /\ pc = "idle" /\ name = None /\ host = None /\ signer = 0
  /\ edits = 0 /\ faults = 0 /\ meddling = 0
  /\ failing = {} /\ hindered = [n \in Builders |-> 0]

-----------------------------------------------------------------------------
(* The API server, and the outcomes of a call.                             *)

With(k, object) == [api EXCEPT ![k] = object]

\* The API server moves to `new`.  Builders' Secrets are owned, so an informer
\* that sees one change wakes its builder; the CA Secret wakes nobody.
Store(new, retried) ==
  LET written == {k \in Secrets : new[k] # api[k]}
      prompt  == written \ Lagging
  IN  /\ api' = new
      /\ seen' = [k \in Secrets |-> IF k \in prompt THEN new[k] ELSE seen[k]]
      /\ lag' = lag \cup (written \cap Lagging)
      /\ queue' = queue \cup retried \cup (prompt \cap Builders)
      /\ cas' = IF new["ca"] # None /\ new["ca"].key > cas THEN new["ca"].key ELSE cas

Return == pc' = "idle" /\ name' = None /\ host' = None /\ signer' = 0

Succeeds(new) == Store(new, {}) /\ UNCHANGED faults

\* An error leaves open whether the API server applied the call.
Fails(new) ==
  /\ faults < MaxFaults /\ faults' = faults + 1
  /\ Store(new, {name}) \/ Store(api, {name})
  /\ Return

Refused == Store(api, {name}) /\ Return /\ UNCHANGED faults

environment == <<exposure, edits, meddling, failing, hindered>>

-----------------------------------------------------------------------------
(* The reconcile of one builder.                                           *)

\* An error on the way to reconcileExposure puts the key back: resolveSpec finds
\* no template, or the ConfigMap or a Service is refused, until somebody repairs
\* it (failing), or one call has failed.
ReturnEarly(n) ==
  /\ pc = "idle" /\ n \in queue
  /\ \/ n \in failing /\ UNCHANGED faults
     \/ n \notin failing /\ faults < MaxFaults /\ faults' = faults + 1
  /\ UNCHANGED <<api, seen, lag, cas, queue, worker>>

BeginReconcile(n) ==
  /\ pc = "idle" /\ n \in queue /\ n \notin failing
  /\ queue' = queue \ {n}
  /\ name' = n /\ host' = exposure[n] /\ signer' = 0
  /\ pc' = IF exposure[n] = None THEN "delete" ELSE "ca"
  /\ UNCHANGED <<api, seen, lag, cas, faults>>

\* Mutant: "best effort", an error is not reported.
deleteBuilderServerCertBestEffort ==
  /\ pc = "delete" /\ Return
  /\ \/ Succeeds(With(name, None))
     \/ Store(api, {}) /\ faults < MaxFaults /\ faults' = faults + 1

deleteBuilderServerCert ==
  /\ pc = "delete"
  /\ \/ Succeeds(With(name, None)) /\ Return
     \/ Fails(With(name, None))

generateCA == [key |-> cas + 1, intact |-> TRUE]

SignWith(key) == pc' = "cert" /\ signer' = key /\ UNCHANGED <<name, host>>

\* Mutants: the loser of the race signs with the CA it has generated; the CA
\* is written with an apply, which replaces the one that is there.
ensureNamespaceCAOwnKey ==
  /\ pc = "ca"
  /\ \/ seen["ca"] # None /\ Succeeds(api) /\ SignWith(seen["ca"].key)
     \/ /\ seen["ca"] = None /\ api["ca"] = None
        /\ Succeeds(With("ca", generateCA)) /\ SignWith(generateCA.key)
     \/ /\ seen["ca"] = None /\ api["ca"] # None
        /\ Succeeds(api) /\ SignWith(generateCA.key)

ensureNamespaceCAApply ==
  /\ pc = "ca"
  /\ \/ seen["ca"] # None /\ Succeeds(api) /\ SignWith(seen["ca"].key)
     \/ seen["ca"] = None /\ Succeeds(With("ca", generateCA)) /\ SignWith(generateCA.key)

\* The CA is read from the cache, and created when it is not there.  When
\* another one is there by then, the code reads the cache again: it may have
\* caught up, or not.
ensureNamespaceCA ==
  /\ pc = "ca"
  /\ \/ /\ seen["ca"] # None
        /\ \/ seen["ca"].intact /\ Succeeds(api) /\ SignWith(seen["ca"].key)
           \/ ~seen["ca"].intact /\ Refused
     \/ /\ seen["ca"] = None /\ api["ca"] = None
        /\ \/ Succeeds(With("ca", generateCA)) /\ SignWith(generateCA.key)
           \/ Fails(With("ca", generateCA))
     \/ /\ seen["ca"] = None /\ api["ca"] # None
        /\ \/ Refused
           \/ /\ seen' = [seen EXCEPT !["ca"] = api["ca"]] /\ lag' = lag \ {"ca"}
              /\ \/ api["ca"].intact /\ SignWith(api["ca"].key) /\ UNCHANGED queue
                 \/ ~api["ca"].intact /\ Return /\ queue' = queue \cup {name}
              /\ UNCHANGED <<api, cas, faults>>

\* Mutant: only the host and the PEM are looked at.
serverCertNeedsRenewalForHost(sec) == sec.host # host \/ ~sec.intact

serverCertNeedsRenewal(sec) ==
  sec.host # host \/ ~sec.intact \/ sec.left < RenewBefore

\* Mutant: a renewal stays with the CA in the Secret's ca.crt.
signServerCertAgain ==
  [host |-> host, left |-> Validity, intact |-> TRUE,
   signer |-> IF seen[name] = None THEN signer ELSE seen[name].signer]

signServerCert ==
  [host |-> host, signer |-> signer, left |-> Validity, intact |-> TRUE]

\* AlreadyExists is taken for success; an update needs the current version.
ensureBuilderServerCert ==
  /\ pc = "cert"
  /\ LET sec  == seen[name]
         goes == Succeeds(With(name, signServerCert)) /\ Return
     IN  \/ sec # None /\ ~serverCertNeedsRenewal(sec) /\ Succeeds(api) /\ Return
         \/ sec = None /\ api[name] # None /\ Succeeds(api) /\ Return
         \/ sec = None /\ api[name] = None /\ (goes \/ Fails(With(name, signServerCert)))
         \/ /\ sec # None /\ serverCertNeedsRenewal(sec)
            /\ \/ name \notin lag /\ (goes \/ Fails(With(name, signServerCert)))
               \/ name \in lag /\ Refused

Reconcile ==
  /\ \/ \E n \in Builders : ReturnEarly(n) \/ BeginReconcile(n)
     \/ deleteBuilderServerCert
     \/ ensureNamespaceCA \/ ensureBuilderServerCert
  /\ UNCHANGED environment

\* A new process lists every builder and every Secret.
RestartController ==
  /\ faults < MaxFaults /\ faults' = faults + 1
  /\ Return
  /\ seen' = api /\ lag' = {} /\ queue' = Builders
  /\ UNCHANGED <<api, cas, environment>>

-----------------------------------------------------------------------------
(* Informers, users, time.                                                 *)

Sync(k) ==
  /\ k \in lag
  /\ seen' = [seen EXCEPT ![k] = api[k]] /\ lag' = lag \ {k}
  /\ queue' = queue \cup ({k} \cap Builders)
  /\ UNCHANGED <<api, cas, worker, faults, environment>>

\* Exposure is switched on or off, or moved to another host.
Expose(n, h) ==
  /\ edits < MaxEdits /\ edits' = edits + 1
  /\ h # exposure[n]
  /\ exposure' = [exposure EXCEPT ![n] = h]
  /\ queue' = queue \cup {n}
  /\ UNCHANGED <<api, seen, lag, cas, worker, faults, meddling, failing, hindered>>

\* What the builder needs before its TLS Secret is taken away, or given back:
\* its template, or a ConfigMap and Services the API server accepts.  No watch
\* tells the controller.
TakeAway(n) ==
  /\ faults < MaxFaults /\ faults' = faults + 1
  /\ n \notin failing /\ failing' = failing \cup {n}
  /\ UNCHANGED <<exposure, api, seen, lag, cas, queue, worker, edits, meddling,
                 hindered>>

GiveBack(n) ==
  /\ n \in failing /\ failing' = failing \ {n}
  /\ UNCHANGED <<exposure, api, seen, lag, cas, queue, worker, edits, faults,
                 meddling, hindered>>

\* A Secret is deleted, damaged, or (the CA) replaced by hand.
Meddle(k, object) ==
  /\ meddling < MaxMeddling /\ meddling' = meddling + 1
  /\ api[k] # None /\ Store(With(k, object), {})
  /\ UNCHANGED <<exposure, worker, edits, faults, failing, hindered>>

EditSecret ==
  \/ \E k \in Secrets : Meddle(k, None)
  \/ \E k \in Secrets : api[k] # None /\ Meddle(k, [api[k] EXCEPT !.intact = FALSE])
  \/ Meddle("ca", generateCA)

Aged(sec) ==
  IF sec = None \/ sec.left = 0 THEN sec ELSE [sec EXCEPT !.left = sec.left - 1]

\* A builder whose reconcile returns the same error whenever it is retried, until
\* somebody repairs the CA, or what fails before it.
Stuck(n) ==
  \/ n \in failing
  \/ exposure[n] # None /\ api["ca"] # None /\ ~api["ca"].intact

\* A unit of time passes.  Whatever can be done has been done by then, and the
\* informers' resync has every builder looked at again.  The units a builder has
\* been stuck for in a row are counted as far as RenewBefore - 1.
Tick ==
  /\ pc = "idle" /\ lag = {} /\ \A n \in queue : Stuck(n)
  /\ api' = [k \in Secrets |-> IF k = "ca" THEN api[k] ELSE Aged(api[k])]
  /\ seen' = api'
  /\ queue' = Builders
  /\ hindered' = [n \in Builders |->
                    IF ~Stuck(n) THEN 0
                    ELSE IF hindered[n] + 1 < RenewBefore THEN hindered[n] + 1
                    ELSE hindered[n]]
  /\ UNCHANGED <<exposure, lag, cas, worker, edits, faults, meddling, failing>>

Next ==
  \/ Reconcile \/ RestartController
  \/ \E k \in Secrets : Sync(k)
  \/ \E n \in Builders, h \in Hosts \cup {None} : Expose(n, h)
  \/ \E n \in Builders : TakeAway(n) \/ GiveBack(n)
  \/ EditSecret
  \/ Tick

Spec == Init /\ [][Next]_vars

\* The worker runs, informers catch up, time passes; users need not act.
FairSpec ==
  /\ Spec
  /\ WF_vars(Reconcile) /\ WF_vars(\E k \in Secrets : Sync(k)) /\ WF_vars(Tick)

-----------------------------------------------------------------------------
(* What the certificates are good for.                                     *)

Certificate ==
  [host: Hosts, signer: 1..cas, left: 0..Validity, intact: BOOLEAN]

Secret(k) ==
  (IF k = "ca" THEN [key: 1..cas, intact: BOOLEAN] ELSE Certificate) \cup {None}

\* Every Secret is a CA or a certificate, and every certificate, stored or
\* cached, was signed with the key of a CA that the API server has stored: a
\* CA that loses the race in ensureNamespaceCA signs nothing.
TLSTypeOK ==
  /\ exposure \in [Builders -> Hosts \cup {None}]
  /\ DOMAIN api = Secrets /\ DOMAIN seen = Secrets
  /\ \A k \in Secrets : api[k] \in Secret(k) /\ seen[k] \in Secret(k)
  /\ lag \subseteq Lagging /\ queue \subseteq Builders
  /\ cas \in 0..(1 + MaxMeddling)
  /\ pc \in {"idle", "delete", "ca", "cert"}
  /\ pc # "idle" => name \in Builders /\ host \in Hosts \cup {None}
  /\ pc = "cert" => signer \in 1..cas

\* What renewBefore is for: in no history of failed calls, stale reads, deleted
\* Secrets and moved hosts does the certificate in an exposed builder's Secret
\* run out, unless the builder's reconcile could not get to it, or could not read
\* the CA, for as long as renewBefore less the unit in which it falls due.
CertInForce ==
  \A n \in Builders :
    exposure[n] # None /\ api[n] # None /\ hindered[n] + 1 < RenewBefore
      => api[n].left > 0

\* The builders that are being looked at or will be, without anybody's doing.
Pending == queue \cup lag \cup (IF pc = "idle" THEN {} ELSE {name})

\* The Secret of a builder is what its exposure asks for.
CertMatches(n) ==
  IF exposure[n] = None THEN api[n] = None
  ELSE /\ api[n] # None /\ api[n].host = exposure[n]
       /\ api[n].intact /\ api[n].left >= RenewBefore

\* No certificate is forgotten: a builder that nothing brings back to the
\* worker before time passes has a certificate for its host that need not be
\* renewed yet, or, when not exposed, none; whatever calls failed, whatever the
\* caches showed and whoever edited the Secrets.  One whose reconcile fails stays
\* in the queue.
NoCertForgotten == \A n \in Builders : n \in Pending \/ CertMatches(n)

\* While nobody has touched the Secrets the builders of a namespace are served
\* by one CA, the one clients find in builderhub-builder-ca (the comment on
\* ExposureConfig: "signed by the same CA").
OneCA ==
  meddling = 0 =>
    \A n \in Builders : api[n] # None => api["ca"] # None /\ api[n].signer = api["ca"].key

\* Why the invariants hold.  A cache that does not trail is right; the worker's
\* host is the builder's unless an edit has queued it again; a CA beyond the
\* first takes an edit of the Secret; a unit of time ends with every certificate
\* that is due renewed, except a stuck builder's, which loses that unit.
CachesAgree == \A k \in Secrets \ lag : seen[k] = api[k]

HostIsCurrent ==
  pc # "idle" =>
    /\ pc = "delete" <=> host = None
    /\ name \in queue \/ host = exposure[name]

CAsStored ==
  /\ cas <= IF api["ca"] = None THEN meddling ELSE meddling + 1
  /\ meddling = 0 /\ cas > 0 => api["ca"] # None

Unexpired ==
  \A n \in Builders : api[n] # None => api[n].left + hindered[n] + 1 >= RenewBefore

Counters ==
  /\ edits \in Nat /\ faults \in Nat /\ meddling \in 0..MaxMeddling
  /\ failing \subseteq Builders /\ hindered \in [Builders -> 0..(RenewBefore - 1)]

TLSInv ==
  /\ TLSTypeOK /\ Counters /\ CachesAgree /\ HostIsCurrent /\ CAsStored
  /\ NoCertForgotten /\ Unexpired

\* A certificate that serves clients of the CA the namespace has now.
Serves(n) ==
  /\ api[n] # None /\ api[n].intact /\ api[n].left > 0
  /\ api[n].host = exposure[n]
  /\ api[n].signer = api["ca"].key

CAUsable == api["ca"] # None /\ api["ca"].intact

\* After a CA is replaced, deleted or repaired its builders' certificates are
\* signed anew in the end, at the latest when they are renewed for their age;
\* nothing else makes serverCertNeedsRenewal look at the signer.  A reconcile
\* that always ends before the TLS Secrets renews nothing.
CertsFollowCA ==
  \A n \in Builders, h \in Hosts :
    (exposure[n] = h /\ CAUsable)
      ~> (exposure[n] # h \/ ~CAUsable \/ n \in failing \/ Serves(n))

=============================================================================
