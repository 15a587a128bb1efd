--------------------------- MODULE BuilderTLS_proofs ---------------------------
(***************************************************************************)
(* Proofs that the invariant TLSInv of BuilderTLS holds for any number of  *)
(* builders and hosts, any lifetimes, whichever caches trail, and any      *)
(* number of faults and edits, and what follows from it.                   *)
(***************************************************************************)
EXTENDS BuilderTLS, TLAPS

\* What the proofs use of the constants.
LEMMA Constants ==
  /\ "ca" \notin Builders /\ "ca" \in Secrets /\ Builders \subseteq Secrets
  /\ None \notin Builders /\ None \notin Hosts
  /\ Lagging \subseteq Secrets
  /\ Validity \in Nat /\ RenewBefore \in Nat /\ 1 < RenewBefore /\ RenewBefore <= Validity
  /\ MaxEdits \in Nat /\ MaxFaults \in Nat /\ MaxMeddling \in Nat
BY TLSAssumption DEF Secrets

\* A CA and a certificate as the proofs take them apart.
LEMMA SecretKinds ==
  /\ Secret("ca") = [key: 1..cas, intact: BOOLEAN] \cup {None}
  /\ \A n \in Builders : Secret(n) = Certificate \cup {None}
BY Constants DEF Secret

\* A record of either kind is not the absent value.
LEMMA SecretsArePresent ==
  ASSUME cas \in Nat
  PROVE  /\ \A ca \in [key: 1..(cas + 1), intact: BOOLEAN] :
              ca # None /\ ca.key \in 1..(cas + 1) /\ ca.intact \in BOOLEAN
         /\ \A sec \in Certificate :
              /\ sec # None
              /\ sec.host \in Hosts /\ sec.signer \in 1..cas
              /\ sec.left \in 0..Validity /\ sec.intact \in BOOLEAN
<1>1. ASSUME NEW ca \in [key: 1..(cas + 1), intact: BOOLEAN]
      PROVE  ca # None /\ ca.key \in 1..(cas + 1) /\ ca.intact \in BOOLEAN
  <2>1. ca \in [key: Nat, intact: BOOLEAN]
    OBVIOUS
  <2> QED BY <2>1, TLSAssumption
<1>2. ASSUME NEW sec \in Certificate
      PROVE  /\ sec # None
             /\ sec.host \in Hosts /\ sec.signer \in 1..cas
             /\ sec.left \in 0..Validity /\ sec.intact \in BOOLEAN
  <2>1. sec \in [host: Hosts, signer: Nat, left: Nat, intact: BOOLEAN]
    BY Constants DEF Certificate
  <2> QED BY <2>1, TLSAssumption DEF Certificate
<1> QED BY <1>1, <1>2

\* What the type invariant says of the Secrets.
LEMMA StoredSecrets ==
  ASSUME TLSTypeOK
  PROVE  /\ cas \in Nat /\ cas <= 1 + MaxMeddling
         /\ \A n \in Builders : /\ api[n] \in Certificate \cup {None}
                                /\ seen[n] \in Certificate \cup {None}
         /\ api["ca"] \in [key: 1..cas, intact: BOOLEAN] \cup {None}
         /\ seen["ca"] \in [key: 1..cas, intact: BOOLEAN] \cup {None}
         /\ api["ca"] # None => api["ca"].key \in 1..cas /\ api["ca"].intact \in BOOLEAN
         /\ seen["ca"] # None => seen["ca"].key \in 1..cas /\ seen["ca"].intact \in BOOLEAN
BY Constants, SecretKinds DEF TLSTypeOK

-----------------------------------------------------------------------------
(* What a call does to the Secrets.                                        *)

\* Objects a step may leave in the API server: certificates of CAs there have
\* been, and a CA that may be new.
Storable(new) ==
  /\ DOMAIN new = Secrets
  /\ \A n \in Builders : new[n] \in Certificate \cup {None}
  /\ new["ca"] \in [key: 1..(cas + 1), intact: BOOLEAN] \cup {None}

Grows == cas' \in Nat /\ cas <= cas'

\* A Secret of a builder or of the CA is of its kind still when CAs are added.
LEMMA KindsGrow ==
  ASSUME TLSTypeOK, Grows
  PROVE  \A k \in Secrets : Secret(k) \subseteq Secret(k)'
<1>1. ASSUME NEW k \in Secrets PROVE Secret(k) \subseteq Secret(k)'
  <2>1. CASE k = "ca"
    BY <2>1, StoredSecrets DEF Secret, Grows
  <2>2. CASE k # "ca"
    BY <2>2, StoredSecrets DEF Secret, Certificate, Grows
  <2> QED BY <2>1, <2>2
<1> QED BY <1>1

\* A Store keeps the kinds, keeps the caches right, and wakes the builder of
\* every Secret it changes, at once or when its cache catches up.
LEMMA StoreKeeps ==
  ASSUME TLSTypeOK, CachesAgree, NEW new, Storable(new),
         NEW retried \in SUBSET Builders, Store(new, retried)
  PROVE  /\ api' = new
         /\ cas' = IF new["ca"] # None /\ new["ca"].key > cas THEN cas + 1 ELSE cas
         /\ Grows
         /\ DOMAIN seen' = Secrets
         /\ \A k \in Secrets : api'[k] \in Secret(k)' /\ seen'[k] \in Secret(k)'
         /\ CachesAgree'
         /\ lag' \subseteq Lagging /\ lag \subseteq lag'
         /\ queue' \subseteq Builders /\ queue \subseteq queue' /\ retried \subseteq queue'
         /\ \A n \in Builders : new[n] # api[n] => n \in queue' \cup lag'
<1> DEFINE written == {k \in Secrets : new[k] # api[k]}
           prompt == written \ Lagging
<1>1. /\ api' = new
      /\ seen' = [k \in Secrets |-> IF k \in prompt THEN new[k] ELSE seen[k]]
      /\ lag' = lag \cup (written \cap Lagging)
      /\ queue' = queue \cup retried \cup (prompt \cap Builders)
      /\ cas' = IF new["ca"] # None /\ new["ca"].key > cas THEN new["ca"].key ELSE cas
  BY DEF Store
<1>2. cas \in Nat
  BY StoredSecrets
<1>3. cas' = IF new["ca"] # None /\ new["ca"].key > cas THEN cas + 1 ELSE cas
  <2>1. new["ca"] # None => new["ca"].key \in 1..(cas + 1)
    BY SecretsArePresent, <1>2 DEF Storable
  <2> QED BY <1>1, <1>2, <2>1
<1>4. Grows
  BY <1>2, <1>3 DEF Grows
<1>5. \A k \in Secrets : Secret(k) \subseteq Secret(k)'
  BY <1>4, KindsGrow
<1>6. ASSUME NEW k \in Secrets PROVE api'[k] \in Secret(k)'
  <2>1. CASE k = "ca"
    <3>1. new["ca"] # None => new["ca"].key \in 1..cas'
      BY SecretsArePresent, <1>2, <1>3 DEF Storable
    <3> QED BY <2>1, <3>1, <1>1 DEF Storable, Secret
  <2>2. CASE k # "ca"
    <3>1. k \in Builders
      BY <2>2 DEF Secrets
    <3> QED BY <3>1, <1>1, <1>5, SecretKinds DEF Storable
  <2> QED BY <2>1, <2>2
<1>7. ASSUME NEW k \in Secrets PROVE seen'[k] \in Secret(k)'
  BY <1>1, <1>5, <1>6 DEF TLSTypeOK
<1>8. CachesAgree'
  BY <1>1 DEF CachesAgree
<1>9. \A n \in Builders : new[n] # api[n] => n \in queue' \cup lag'
  BY <1>1, Constants
<1> QED
  BY <1>1, <1>3, <1>4, <1>6, <1>7, <1>8, <1>9, Constants DEF TLSTypeOK

\* The store as it is, with one builder's Secret replaced, or with the CA.
LEMMA WithIsStorable ==
  ASSUME TLSTypeOK
  PROVE  /\ Storable(api)
         /\ \A n \in Builders, sec \in Certificate \cup {None} :
              /\ Storable(With(n, sec))
              /\ With(n, sec)[n] = sec
              /\ \A k \in Secrets \ {n} : With(n, sec)[k] = api[k]
         /\ \A ca \in [key: 1..(cas + 1), intact: BOOLEAN] \cup {None} :
              /\ Storable(With("ca", ca))
              /\ With("ca", ca)["ca"] = ca
              /\ \A n \in Builders : With("ca", ca)[n] = api[n]
<1>1. DOMAIN api = Secrets
  BY DEF TLSTypeOK
<1>2. /\ \A n \in Builders : api[n] \in Certificate \cup {None}
      /\ api["ca"] \in [key: 1..(cas + 1), intact: BOOLEAN] \cup {None}
  BY StoredSecrets
<1>3. ASSUME NEW n \in Builders, NEW sec \in Certificate \cup {None}
      PROVE  /\ Storable(With(n, sec))
             /\ With(n, sec)[n] = sec
             /\ \A k \in Secrets \ {n} : With(n, sec)[k] = api[k]
  <2>1. n # "ca"
    BY Constants
  <2>2. DOMAIN With(n, sec) = Secrets
    BY <1>1 DEF With
  <2>3. \A k \in Secrets : With(n, sec)[k] = IF k = n THEN sec ELSE api[k]
    BY <1>1 DEF With
  <2> QED BY <1>2, <2>1, <2>2, <2>3, Constants DEF Storable
<1>4. ASSUME NEW ca \in [key: 1..(cas + 1), intact: BOOLEAN] \cup {None}
      PROVE  /\ Storable(With("ca", ca))
             /\ With("ca", ca)["ca"] = ca
             /\ \A n \in Builders : With("ca", ca)[n] = api[n]
  <2>1. DOMAIN With("ca", ca) = Secrets
    BY <1>1 DEF With
  <2>2. \A k \in Secrets : With("ca", ca)[k] = IF k = "ca" THEN ca ELSE api[k]
    BY <1>1 DEF With
  <2> QED BY <1>2, <2>1, <2>2, Constants DEF Storable
<1> QED BY <1>1, <1>2, <1>3, <1>4 DEF Storable

-----------------------------------------------------------------------------
(* The invariant, action by action.                                        *)

LEMMA InitKeepsTLSInv == Init => TLSInv
<1> SUFFICES ASSUME Init PROVE TLSInv
  OBVIOUS
<1>1. TLSTypeOK
  BY Constants DEF Init, TLSTypeOK, Secret
<1>2. Counters
  <2>1. 0 \in 0..MaxMeddling /\ 0 \in 0..(RenewBefore - 1)
    BY Constants
  <2> QED BY <2>1 DEF Init, Counters
<1>3. CachesAgree /\ HostIsCurrent
  BY DEF Init, CachesAgree, HostIsCurrent
<1>4. CAsStored /\ NoCertForgotten /\ Unexpired
  BY Constants DEF Init, CAsStored, NoCertForgotten, CertMatches, Unexpired
<1> QED BY <1>1, <1>2, <1>3, <1>4 DEF TLSInv

\* A CA stored where there was none is one more than the manual edits at most.
LEMMA CAsCounted ==
  ASSUME TLSInv, NEW new, Storable(new), NEW retried \in SUBSET Builders,
         Store(new, retried), meddling' = meddling,
         new["ca"] = api["ca"] \/ (api["ca"] = None /\ new["ca"] = generateCA)
  PROVE  CAsStored' /\ cas' \in 0..(1 + MaxMeddling)
<1>1. /\ TLSTypeOK /\ CachesAgree /\ CAsStored /\ cas \in Nat
      /\ meddling \in Nat /\ meddling <= MaxMeddling /\ MaxMeddling \in Nat
  BY StoredSecrets, Constants DEF TLSInv, Counters
<1>2. /\ api' = new
      /\ cas' = IF new["ca"] # None /\ new["ca"].key > cas THEN cas + 1 ELSE cas
  BY <1>1, StoreKeeps
<1>3. CASE new["ca"] = api["ca"]
  <2>1. cas' = cas
    BY <1>1, <1>2, <1>3, StoredSecrets
  <2> QED BY <1>1, <1>2, <1>3, <2>1 DEF CAsStored
<1>4. CASE api["ca"] = None /\ new["ca"] = generateCA
  <2>1. generateCA \in [key: 1..(cas + 1), intact: BOOLEAN]
    BY <1>1 DEF generateCA
  <2>2. new["ca"] # None
    BY <1>1, <1>4, <2>1, SecretsArePresent
  <2>3. cas' \in Nat /\ cas' <= cas + 1
    BY <1>1, <1>2
  <2> QED BY <1>1, <1>2, <1>4, <2>2, <2>3 DEF CAsStored
<1> QED BY <1>3, <1>4

\* One call of a reconcile.  It may add a CA where there is none and replace
\* certificates by fresh ones; it leaves the builder to be looked at again, or
\* with the certificate it needs, or goes on to sign one.
LEMMA CallKeepsTLSInv ==
  ASSUME TLSInv, NEW new, Storable(new), NEW retried \in SUBSET Builders,
         Store(new, retried), UNCHANGED environment, faults' \in Nat,
         pc # "idle",
         new["ca"] = api["ca"] \/ (api["ca"] = None /\ new["ca"] = generateCA),
         \A n \in Builders : new[n] \notin {None, api[n]} => new[n].left = Validity,
         \/ /\ Return
            /\ \A n \in Builders \cap {name} : n \in queue' \cup lag' \/ CertMatches(n)'
         \/ /\ pc' = "cert" /\ host # None /\ signer' \in 1..cas'
            /\ UNCHANGED <<name, host>>
  PROVE  TLSInv'
<1>1. /\ TLSTypeOK /\ CachesAgree /\ Counters /\ HostIsCurrent
      /\ NoCertForgotten /\ Unexpired
  BY DEF TLSInv
<1>2. /\ api' = new /\ DOMAIN new = Secrets /\ DOMAIN seen' = Secrets
      /\ \A k \in Secrets : api'[k] \in Secret(k)' /\ seen'[k] \in Secret(k)'
      /\ CachesAgree'
      /\ lag' \subseteq Lagging /\ lag \subseteq lag'
      /\ queue' \subseteq Builders /\ queue \subseteq queue'
      /\ \A n \in Builders : new[n] # api[n] => n \in queue' \cup lag'
  BY <1>1, StoreKeeps DEF Storable
<1>3. CAsStored' /\ cas' \in 0..(1 + MaxMeddling)
  BY CAsCounted DEF environment
<1>4. TLSTypeOK'
  <2>1. /\ pc' \in {"idle", "delete", "ca", "cert"}
        /\ pc' # "idle" => name' \in Builders /\ host' \in Hosts \cup {None}
        /\ pc' = "cert" => signer' \in 1..cas'
    BY <1>1 DEF TLSTypeOK, Return
  <2>2. exposure' \in [Builders -> Hosts \cup {None}]
    BY <1>1 DEF TLSTypeOK, environment
  <2> QED BY <1>2, <1>3, <2>1, <2>2 DEF TLSTypeOK
<1>5. Counters'
  BY <1>1 DEF Counters, environment
<1>6. HostIsCurrent'
  BY <1>1, <1>2 DEF HostIsCurrent, Return, environment
<1>7. NoCertForgotten'
  <2> SUFFICES ASSUME NEW n \in Builders, n \notin Pending'
               PROVE  CertMatches(n)'
    BY DEF NoCertForgotten
  <2>1. n \notin queue' /\ n \notin lag'
    BY DEF Pending
  <2>2. CASE n = name
    <3>1. ~(pc' = "cert" /\ name' = name)
      BY <2>2 DEF Pending
    <3> QED BY <2>1, <2>2, <3>1
  <2>3. CASE n # name
    <3>1. n \notin Pending
      BY <1>2, <2>1, <2>3 DEF Pending
    <3>2. CertMatches(n) /\ api'[n] = api[n]
      BY <1>1, <1>2, <2>1, <3>1 DEF NoCertForgotten
    <3> QED BY <3>2 DEF CertMatches, environment
  <2> QED BY <2>2, <2>3
<1>8. Unexpired'
  <2> SUFFICES ASSUME NEW n \in Builders, api'[n] # None
               PROVE  api'[n].left + hindered[n] + 1 >= RenewBefore
    BY DEF Unexpired, environment
  <2>1. hindered[n] \in Nat
    BY <1>1, Constants DEF Counters
  <2>2. CASE new[n] = api[n]
    BY <1>1, <1>2, <2>2 DEF Unexpired
  <2>3. CASE new[n] # api[n]
    BY <1>2, <2>1, <2>3, Constants
  <2> QED BY <2>2, <2>3
<1> QED BY <1>2, <1>3, <1>4, <1>5, <1>6, <1>7, <1>8 DEF TLSInv

\* A failed call leaves everything as it was, or as a success would have; the
\* builder is queued again.
LEMMA FailureKeepsTLSInv ==
  ASSUME TLSInv, NEW new, Storable(new), Fails(new), UNCHANGED environment,
         pc # "idle",
         new["ca"] = api["ca"] \/ (api["ca"] = None /\ new["ca"] = generateCA),
         \A n \in Builders : new[n] \notin {None, api[n]} => new[n].left = Validity
  PROVE  TLSInv'
<1>1. /\ TLSTypeOK /\ CachesAgree /\ {name} \in SUBSET Builders
      /\ faults' \in Nat /\ Return
      /\ Store(new, {name}) \/ Store(api, {name})
  BY DEF TLSInv, TLSTypeOK, Counters, Fails
<1>2. Storable(api)
  BY <1>1, WithIsStorable
<1>3. CASE Store(new, {name})
  <2>1. name \in queue'
    BY <1>1, <1>3, StoreKeeps
  <2> QED BY <1>1, <1>3, <2>1, CallKeepsTLSInv
<1>4. CASE Store(api, {name})
  <2>1. name \in queue'
    BY <1>1, <1>2, <1>4, StoreKeeps
  <2> QED BY <1>1, <1>2, <1>4, <2>1, CallKeepsTLSInv
<1> QED BY <1>1, <1>3, <1>4

\* A refusal leaves everything as it was and the builder queued again.
LEMMA RefusalKeepsTLSInv ==
  ASSUME TLSInv, Refused, UNCHANGED environment, pc # "idle"
  PROVE  TLSInv'
<1>1. /\ TLSTypeOK /\ CachesAgree /\ {name} \in SUBSET Builders
      /\ faults' \in Nat /\ Return /\ Store(api, {name})
  BY DEF TLSInv, TLSTypeOK, Counters, Refused
<1>2. Storable(api)
  BY <1>1, WithIsStorable
<1>3. name \in queue'
  BY <1>1, <1>2, StoreKeeps
<1> QED BY <1>1, <1>2, <1>3, CallKeepsTLSInv

\* A reconcile that ends before it gets to the Secrets leaves the builder queued.
LEMMA EarlyReturnKeepsTLSInv ==
  ASSUME TLSInv, NEW n \in Builders, ReturnEarly(n), UNCHANGED environment
  PROVE  TLSInv'
<1>1. TLSTypeOK'
  BY DEF TLSInv, TLSTypeOK, Secret, Certificate, ReturnEarly, worker, environment
<1>2. Counters'
  BY DEF TLSInv, Counters, ReturnEarly, environment
<1> QED
  BY <1>1, <1>2
  DEF TLSInv, CachesAgree, HostIsCurrent, CAsStored, NoCertForgotten, Pending,
      CertMatches, Unexpired, ReturnEarly, worker, environment

LEMMA BeginKeepsTLSInv ==
  ASSUME TLSInv, NEW n \in Builders, BeginReconcile(n), UNCHANGED environment
  PROVE  TLSInv'
<1>1. /\ TLSTypeOK /\ CachesAgree /\ Counters /\ HostIsCurrent /\ CAsStored
      /\ NoCertForgotten /\ Unexpired
  BY DEF TLSInv
<1>2. TLSTypeOK'
  <2>1. exposure[n] \in Hosts \cup {None}
    BY <1>1 DEF TLSTypeOK
  <2>2. pc' \in {"delete", "ca"} /\ name' = n /\ host' = exposure[n]
    BY DEF BeginReconcile
  <2> QED
    BY <1>1, <2>1, <2>2 DEF TLSTypeOK, BeginReconcile, environment, Secret, Certificate
<1>3. Counters' /\ CachesAgree' /\ CAsStored' /\ Unexpired'
  BY <1>1 DEF Counters, CachesAgree, CAsStored, Unexpired, BeginReconcile, environment
<1>4. HostIsCurrent'
  BY DEF HostIsCurrent, BeginReconcile, environment
<1>5. NoCertForgotten'
  <2> SUFFICES ASSUME NEW m \in Builders, m \notin Pending'
               PROVE  CertMatches(m)'
    BY DEF NoCertForgotten
  <2>1. m \notin Pending
    BY DEF Pending, BeginReconcile
  <2> QED BY <1>1, <2>1 DEF NoCertForgotten, CertMatches, BeginReconcile, environment
<1> QED BY <1>2, <1>3, <1>4, <1>5 DEF TLSInv

\* The worker deletes the Secret of the builder it works for, which was not
\* exposed when it began; an edit since then has queued it again.
LEMMA DeleteKeepsTLSInv ==
  ASSUME TLSInv, deleteBuilderServerCert, UNCHANGED environment
  PROVE  TLSInv'
<1>1. /\ TLSTypeOK /\ CachesAgree /\ Counters /\ HostIsCurrent
      /\ pc = "delete" /\ name \in Builders
  BY DEF TLSInv, TLSTypeOK, deleteBuilderServerCert
<1>2. /\ Storable(With(name, None)) /\ With(name, None)[name] = None
      /\ With(name, None)["ca"] = api["ca"]
      /\ \A n \in Builders : With(name, None)[n] \in {None, api[n]}
  BY <1>1, WithIsStorable, Constants
<1>3. CASE Succeeds(With(name, None)) /\ Return
  <2>1. Store(With(name, None), {}) /\ faults' \in Nat
    BY <1>1, <1>3 DEF Succeeds, Counters
  <2>2. api' = With(name, None) /\ queue \subseteq queue'
    BY <1>1, <1>2, <2>1, StoreKeeps
  <2>3. ASSUME NEW n \in Builders \cap {name}, n \notin queue'
        PROVE  CertMatches(n)'
    BY <1>1, <1>2, <2>2, <2>3 DEF HostIsCurrent, CertMatches, environment
  <2> QED BY <1>1, <1>2, <1>3, <2>1, <2>3, CallKeepsTLSInv
<1>4. CASE Fails(With(name, None))
  BY <1>1, <1>2, <1>4, FailureKeepsTLSInv
<1> QED BY <1>3, <1>4 DEF deleteBuilderServerCert

\* The CA that is found in the cache is one there has been; the CA that is
\* generated is stored where there is none; the CA that another one stored in
\* the meantime is read again, or the builder is queued.
LEMMA CAKeepsTLSInv ==
  ASSUME TLSInv, ensureNamespaceCA, UNCHANGED environment
  PROVE  TLSInv'
<1>1. /\ TLSTypeOK /\ CachesAgree /\ Counters /\ HostIsCurrent /\ CAsStored
      /\ NoCertForgotten /\ Unexpired
      /\ pc = "ca" /\ name \in Builders /\ host # None /\ cas \in Nat
  BY StoredSecrets DEF TLSInv, TLSTypeOK, HostIsCurrent, ensureNamespaceCA
<1>2. Storable(api)
  BY <1>1, WithIsStorable
<1>3. generateCA \in [key: 1..(cas + 1), intact: BOOLEAN]
  BY <1>1 DEF generateCA
<1>4. CASE seen["ca"] # None /\ seen["ca"].intact /\ Succeeds(api) /\ SignWith(seen["ca"].key)
  <2>1. Store(api, {}) /\ faults' \in Nat
    BY <1>1, <1>4 DEF Succeeds, Counters
  <2>2. seen["ca"].key \in 1..cas /\ cas' \in Nat /\ cas <= cas'
    BY <1>1, <1>2, <1>4, <2>1, StoredSecrets, StoreKeeps DEF Grows
  <2>3. /\ pc' = "cert" /\ signer' \in 1..cas' /\ UNCHANGED <<name, host>>
    BY <1>1, <1>4, <2>2 DEF SignWith
  <2> QED BY <1>1, <1>2, <2>1, <2>3, CallKeepsTLSInv
<1>5. CASE Refused
  BY <1>1, <1>5, RefusalKeepsTLSInv
<1>6. CASE seen["ca"] = None /\ api["ca"] = None
  <2> DEFINE new == With("ca", generateCA)
  <2>1. /\ Storable(new) /\ new["ca"] = generateCA
        /\ \A n \in Builders : new[n] = api[n]
    BY <1>1, <1>3, WithIsStorable
  <2> HIDE DEF new
  <2>2. CASE Succeeds(new) /\ SignWith(generateCA.key)
    <3>1. Store(new, {}) /\ faults' \in Nat
      BY <1>1, <2>2 DEF Succeeds, Counters
    <3>2. generateCA # None /\ generateCA.key = cas + 1
      BY <1>1, <1>3, SecretsArePresent DEF generateCA
    <3>3. cas' = cas + 1
      BY <1>1, <2>1, <3>1, <3>2, StoreKeeps
    <3>4. pc' = "cert" /\ signer' \in 1..cas' /\ UNCHANGED <<name, host>>
      BY <1>1, <2>2, <3>2, <3>3 DEF SignWith
    <3> QED BY <1>1, <1>6, <2>1, <3>1, <3>4, CallKeepsTLSInv
  <2>3. CASE Fails(new)
    BY <1>1, <1>6, <2>1, <2>3, FailureKeepsTLSInv
  <2> QED
    BY <1>5, <1>6, <2>2, <2>3, <1>1 DEF ensureNamespaceCA, new
<1>7. CASE /\ seen["ca"] = None /\ api["ca"] # None
           /\ seen' = [seen EXCEPT !["ca"] = api["ca"]] /\ lag' = lag \ {"ca"}
           /\ \/ api["ca"].intact /\ SignWith(api["ca"].key) /\ UNCHANGED queue
              \/ ~api["ca"].intact /\ Return /\ queue' = queue \cup {name}
           /\ UNCHANGED <<api, cas, faults>>
  <2>1. /\ api["ca"].key \in 1..cas
        /\ queue \subseteq queue' /\ queue' \subseteq Builders
        /\ \/ pc' = "cert" /\ signer' \in 1..cas' /\ UNCHANGED <<name, host>>
           \/ pc' = "idle" /\ name \in queue'
    BY <1>1, <1>7, StoredSecrets DEF SignWith, Return, TLSTypeOK
  <2>2. TLSTypeOK'
    <3>1. \A k \in Secrets : Secret(k)' = Secret(k)
      BY <1>7 DEF Secret, Certificate
    <3>2. DOMAIN seen' = Secrets /\ \A k \in Secrets : seen'[k] \in {seen[k], api[k]}
      BY <1>1, <1>7, Constants DEF TLSTypeOK
    <3>3. \A k \in Secrets : api'[k] \in Secret(k)' /\ seen'[k] \in Secret(k)'
      BY <1>1, <1>7, <3>1, <3>2 DEF TLSTypeOK
    <3> QED BY <1>1, <1>7, <2>1, <3>2, <3>3 DEF TLSTypeOK, environment
  <2>3. Counters' /\ CAsStored' /\ Unexpired'
    BY <1>1, <1>7 DEF Counters, CAsStored, Unexpired, environment
  <2>4. CachesAgree'
    BY <1>1, <1>7, Constants DEF CachesAgree, TLSTypeOK
  <2>5. HostIsCurrent'
    BY <1>1, <2>1 DEF HostIsCurrent, environment
  <2>6. NoCertForgotten'
    <3> SUFFICES ASSUME NEW n \in Builders, n \notin Pending'
                 PROVE  CertMatches(n)'
      BY DEF NoCertForgotten
    <3>1. n \notin Pending
      BY <1>7, <2>1, Constants DEF Pending
    <3> QED BY <1>1, <1>7, <3>1 DEF NoCertForgotten, CertMatches, environment
  <2> QED BY <2>2, <2>3, <2>4, <2>5, <2>6 DEF TLSInv
<1> QED BY <1>4, <1>5, <1>6, <1>7 DEF ensureNamespaceCA

\* The worker leaves the builder with a certificate for the host it read, or
\* queued: when it has not read the newest Secret it is queued again in any case.
LEMMA CertKeepsTLSInv ==
  ASSUME TLSInv, ensureBuilderServerCert, UNCHANGED environment
  PROVE  TLSInv'
<1>1. /\ TLSTypeOK /\ CachesAgree /\ Counters /\ HostIsCurrent
      /\ pc = "cert" /\ name \in Builders /\ cas \in Nat
      /\ host \in Hosts /\ host # None /\ signer \in 1..cas
  BY StoredSecrets DEF TLSInv, TLSTypeOK, HostIsCurrent, ensureBuilderServerCert
<1> DEFINE new == With(name, signServerCert)
<1>2. /\ signServerCert \in Certificate /\ signServerCert # None
      /\ signServerCert.host = host /\ signServerCert.intact
      /\ signServerCert.left = Validity
  <2>1. signServerCert \in Certificate
    BY <1>1, Constants DEF signServerCert, Certificate
  <2> QED BY <1>1, <2>1, SecretsArePresent DEF signServerCert
<1>3. /\ Storable(new) /\ new[name] = signServerCert /\ new["ca"] = api["ca"]
      /\ \A n \in Builders : new[n] \in {signServerCert, api[n]}
  BY <1>1, <1>2, WithIsStorable, Constants
<1>4. Storable(api)
  BY <1>1, WithIsStorable
<1> HIDE DEF new
<1>5. \A n \in Builders : new[n] \notin {None, api[n]} => new[n].left = Validity
  BY <1>2, <1>3, Constants
<1>6. CASE Succeeds(new) /\ Return
  <2>1. Store(new, {}) /\ faults' \in Nat
    BY <1>1, <1>6 DEF Succeeds, Counters
  <2>2. api' = new /\ queue \subseteq queue'
    BY <1>1, <1>3, <2>1, StoreKeeps
  <2>3. ASSUME NEW n \in Builders \cap {name}, n \notin queue'
        PROVE  CertMatches(n)'
    <3>1. exposure'[n] = host /\ api'[n] = signServerCert
      BY <1>1, <1>3, <2>2, <2>3 DEF HostIsCurrent, environment
    <3> QED BY <1>1, <1>2, <3>1, Constants DEF CertMatches
  <2> QED BY <1>1, <1>3, <1>5, <1>6, <2>1, <2>3, CallKeepsTLSInv
<1>7. CASE Fails(new)
  BY <1>1, <1>3, <1>5, <1>7, FailureKeepsTLSInv
<1>8. CASE Refused
  BY <1>1, <1>8, RefusalKeepsTLSInv
<1>9. CASE /\ Succeeds(api) /\ Return
           /\ \/ seen[name] # None /\ ~serverCertNeedsRenewal(seen[name])
              \/ seen[name] = None /\ api[name] # None
  <2>1. Store(api, {}) /\ faults' \in Nat
    BY <1>1, <1>9 DEF Succeeds, Counters
  <2>2. api' = api /\ queue \subseteq queue' /\ lag \subseteq lag'
    BY <1>1, <1>4, <2>1, StoreKeeps
  <2>3. ASSUME NEW n \in Builders \cap {name}, n \notin queue' \cup lag'
        PROVE  CertMatches(n)'
    <3>1. exposure'[n] = host /\ seen[n] = api[n]
      BY <1>1, <2>2, <2>3, Constants DEF HostIsCurrent, CachesAgree, environment
    <3>2. api[n] \in Certificate
      BY <1>1, <1>9, <3>1, StoredSecrets
    <3>3. /\ api[n] # None /\ api[n].host = host /\ api[n].intact
          /\ ~(api[n].left < RenewBefore) /\ api[n].left \in 0..Validity
      BY <1>1, <1>9, <3>1, <3>2, SecretsArePresent DEF serverCertNeedsRenewal
    <3> QED BY <1>1, <2>2, <3>1, <3>3, Constants DEF CertMatches
  <2> QED BY <1>1, <1>4, <1>9, <2>1, <2>3, CallKeepsTLSInv
<1> QED BY <1>6, <1>7, <1>8, <1>9 DEF ensureBuilderServerCert, new

\* A new process has every builder looked at and every Secret read.
LEMMA RestartKeepsTLSInv ==
  ASSUME TLSInv, RestartController
  PROVE  TLSInv'
<1>1. /\ TLSTypeOK /\ Counters /\ CAsStored /\ Unexpired
  BY DEF TLSInv
<1>2. /\ seen' = api /\ lag' = {} /\ queue' = Builders /\ pc' = "idle"
      /\ faults' \in Nat
      /\ UNCHANGED <<api, cas, exposure, edits, meddling, failing, hindered>>
  BY <1>1 DEF RestartController, Return, environment, Counters
<1>3. TLSTypeOK'
  <2>1. \A k \in Secrets : Secret(k)' = Secret(k)
    BY <1>2 DEF Secret, Certificate
  <2> QED BY <1>1, <1>2, <2>1 DEF TLSTypeOK
<1>4. Counters' /\ CachesAgree' /\ HostIsCurrent' /\ CAsStored' /\ Unexpired'
  BY <1>1, <1>2 DEF Counters, CachesAgree, HostIsCurrent, CAsStored, Unexpired
<1>5. NoCertForgotten'
  BY <1>2 DEF NoCertForgotten, Pending
<1> QED BY <1>3, <1>4, <1>5 DEF TLSInv

\* A cache that catches up wakes the builder of the Secret.
LEMMA SyncKeepsTLSInv ==
  ASSUME TLSInv, NEW k \in Secrets, Sync(k)
  PROVE  TLSInv'
<1>1. /\ TLSTypeOK /\ CachesAgree /\ Counters /\ HostIsCurrent /\ CAsStored
      /\ NoCertForgotten /\ Unexpired
  BY DEF TLSInv
<1>2. /\ seen' = [seen EXCEPT ![k] = api[k]] /\ lag' = lag \ {k}
      /\ queue' = queue \cup ({k} \cap Builders)
      /\ UNCHANGED <<api, cas, pc, name, host, signer, faults, exposure, edits,
                     meddling, failing, hindered>>
  BY DEF Sync, worker, environment
<1>3. TLSTypeOK'
  <2>1. \A s \in Secrets : Secret(s)' = Secret(s)
    BY <1>2 DEF Secret, Certificate
  <2>2. DOMAIN seen' = Secrets /\ \A s \in Secrets : seen'[s] \in {seen[s], api[s]}
    BY <1>1, <1>2 DEF TLSTypeOK
  <2>3. \A s \in Secrets : api'[s] \in Secret(s)' /\ seen'[s] \in Secret(s)'
    BY <1>1, <1>2, <2>1, <2>2 DEF TLSTypeOK
  <2> QED BY <1>1, <1>2, <2>2, <2>3 DEF TLSTypeOK
<1>4. CachesAgree'
  BY <1>1, <1>2 DEF CachesAgree, TLSTypeOK
<1>5. Counters' /\ HostIsCurrent' /\ CAsStored' /\ Unexpired'
  BY <1>1, <1>2 DEF Counters, HostIsCurrent, CAsStored, Unexpired
<1>6. NoCertForgotten'
  <2> SUFFICES ASSUME NEW n \in Builders, n \notin Pending'
               PROVE  CertMatches(n)'
    BY DEF NoCertForgotten
  <2>1. n \notin Pending
    BY <1>2 DEF Pending
  <2> QED BY <1>1, <1>2, <2>1 DEF NoCertForgotten, CertMatches
<1> QED BY <1>3, <1>4, <1>5, <1>6 DEF TLSInv

\* An edit of a builder's exposure queues it.
LEMMA ExposeKeepsTLSInv ==
  ASSUME TLSInv, NEW n \in Builders, NEW h \in Hosts \cup {None}, Expose(n, h)
  PROVE  TLSInv'
<1>1. /\ TLSTypeOK /\ CachesAgree /\ Counters /\ HostIsCurrent /\ CAsStored
      /\ NoCertForgotten /\ Unexpired
  BY DEF TLSInv
<1>2. /\ exposure' = [exposure EXCEPT ![n] = h] /\ queue' = queue \cup {n}
      /\ edits' \in Nat
      /\ UNCHANGED <<api, seen, lag, cas, pc, name, host, signer, faults, meddling,
                     failing, hindered>>
  BY <1>1 DEF Expose, worker, Counters
<1>3. TLSTypeOK'
  <2>1. \A k \in Secrets : Secret(k)' = Secret(k)
    BY <1>2 DEF Secret, Certificate
  <2> QED BY <1>1, <1>2, <2>1 DEF TLSTypeOK
<1>4. Counters' /\ CachesAgree' /\ CAsStored'
  BY <1>1, <1>2 DEF Counters, CachesAgree, CAsStored
<1>5. HostIsCurrent'
  BY <1>1, <1>2 DEF HostIsCurrent, TLSTypeOK
<1>6. NoCertForgotten'
  <2> SUFFICES ASSUME NEW m \in Builders, m \notin Pending'
               PROVE  CertMatches(m)'
    BY DEF NoCertForgotten
  <2>1. m \notin Pending /\ exposure'[m] = exposure[m]
    BY <1>1, <1>2 DEF Pending, TLSTypeOK
  <2> QED BY <1>1, <1>2, <2>1 DEF NoCertForgotten, CertMatches
<1>7. Unexpired'
  BY <1>1, <1>2 DEF Unexpired
<1> QED BY <1>3, <1>4, <1>5, <1>6, <1>7 DEF TLSInv

\* What a builder needs is taken away or given back: no Secret changes.
LEMMA NeedsKeepTLSInv ==
  ASSUME TLSInv, NEW n \in Builders, TakeAway(n) \/ GiveBack(n)
  PROVE  TLSInv'
<1>1. TLSTypeOK'
  BY DEF TLSInv, TLSTypeOK, Secret, Certificate, TakeAway, GiveBack, worker
<1>2. Counters'
  BY DEF TLSInv, Counters, TakeAway, GiveBack
<1> QED
  BY <1>1, <1>2
  DEF TLSInv, CachesAgree, HostIsCurrent, CAsStored, NoCertForgotten, Pending,
      CertMatches, Unexpired, TakeAway, GiveBack, worker

\* No edit by hand gives a certificate time.
NoneProlonged(new) ==
  \A n \in Builders : new[n] # None => api[n] # None /\ new[n].left = api[n].left

\* An edit of a builder's Secret wakes it; an edit of the CA wakes nobody, and
\* asks nothing of the certificates.
LEMMA MeddleKeepsTLSInv ==
  ASSUME TLSInv, NEW k \in Secrets, NEW object, Meddle(k, object),
         Storable(With(k, object)),
         NoneProlonged(With(k, object))
  PROVE  TLSInv'
<1> DEFINE new == With(k, object)
<1>1. /\ TLSTypeOK /\ CachesAgree /\ Counters /\ HostIsCurrent /\ CAsStored
      /\ NoCertForgotten /\ Unexpired /\ cas \in Nat
  BY StoredSecrets DEF TLSInv
<1>2. /\ Store(new, {}) /\ Storable(new) /\ api[k] # None
      /\ meddling' = meddling + 1 /\ meddling' \in 0..MaxMeddling
      /\ UNCHANGED <<exposure, pc, name, host, signer, edits, faults, failing, hindered>>
  BY <1>1, Constants DEF Meddle, worker, Counters
<1>3. k # "ca" => new["ca"] = api["ca"]
  BY <1>1, Constants DEF With, TLSTypeOK
<1>4. \A n \in Builders : new[n] # None => api[n] # None /\ new[n].left = api[n].left
  BY DEF NoneProlonged
<1> HIDE DEF new
<1>5. /\ api' = new /\ DOMAIN new = Secrets /\ DOMAIN seen' = Secrets
      /\ cas' = IF new["ca"] # None /\ new["ca"].key > cas THEN cas + 1 ELSE cas
      /\ \A s \in Secrets : api'[s] \in Secret(s)' /\ seen'[s] \in Secret(s)'
      /\ CachesAgree'
      /\ lag' \subseteq Lagging /\ lag \subseteq lag'
      /\ queue' \subseteq Builders /\ queue \subseteq queue'
      /\ \A n \in Builders : new[n] # api[n] => n \in queue' \cup lag'
  BY <1>1, <1>2, StoreKeeps DEF Storable
<1>6. CAsStored' /\ cas' \in 0..(1 + MaxMeddling)
  <2>0. meddling \in Nat /\ MaxMeddling \in Nat /\ meddling + 1 <= MaxMeddling
    BY <1>1, <1>2, Constants DEF Counters
  <2>1. CASE k = "ca"
    <3>1. cas <= meddling + 1 /\ (new["ca"] = None => cas <= meddling')
      BY <1>1, <1>2, <2>0, <2>1 DEF CAsStored
    <3>2. /\ cas' \in Nat /\ cas' <= meddling' + 1
          /\ new["ca"] = None => cas' <= meddling'
      BY <1>1, <1>2, <1>5, <2>0, <3>1
    <3> QED BY <1>2, <1>5, <2>0, <3>2 DEF CAsStored
  <2>2. CASE k # "ca"
    <3>1. cas' = cas /\ new["ca"] = api["ca"]
      BY <1>1, <1>3, <1>5, <2>2, StoredSecrets
    <3> QED BY <1>1, <1>2, <1>5, <2>0, <3>1 DEF CAsStored
  <2> QED BY <2>1, <2>2
<1>7. TLSTypeOK'
  <2>1. cas \in Nat /\ cas' \in Nat /\ cas <= cas'
    BY <1>1, <1>5
  <2>2. pc' = "cert" => signer' \in 1..cas'
    BY <1>1, <1>2, <2>1 DEF TLSTypeOK
  <2> QED BY <1>1, <1>2, <1>5, <1>6, <2>2 DEF TLSTypeOK
<1>8. Counters'
  BY <1>1, <1>2 DEF Counters
<1>9. HostIsCurrent'
  BY <1>1, <1>2, <1>5 DEF HostIsCurrent
<1>10. NoCertForgotten'
  <2> SUFFICES ASSUME NEW n \in Builders, n \notin Pending'
               PROVE  CertMatches(n)'
    BY DEF NoCertForgotten
  <2>1. n \notin Pending /\ api'[n] = api[n]
    BY <1>2, <1>5 DEF Pending
  <2> QED BY <1>1, <1>2, <2>1 DEF NoCertForgotten, CertMatches
<1>11. Unexpired'
  BY <1>1, <1>2, <1>4, <1>5 DEF Unexpired
<1> QED BY <1>5, <1>6, <1>7, <1>8, <1>9, <1>10, <1>11 DEF TLSInv

\* Deleting, damaging and replacing a Secret.
LEMMA EditSecretKeepsTLSInv ==
  ASSUME TLSInv, EditSecret
  PROVE  TLSInv'
<1>1. TLSTypeOK /\ cas \in Nat /\ DOMAIN api = Secrets
  BY StoredSecrets DEF TLSInv, TLSTypeOK
<1>2. ASSUME NEW k \in Secrets, Meddle(k, None) PROVE TLSInv'
  <2>1. NoneProlonged(With(k, None))
    BY <1>1, Constants DEF With, NoneProlonged
  <2>2. Storable(With(k, None))
    BY <1>1, WithIsStorable DEF Secrets
  <2> QED BY <1>2, <2>1, <2>2, MeddleKeepsTLSInv
<1>3. ASSUME NEW k \in Secrets, api[k] # None, NEW damaged,
             damaged = [api[k] EXCEPT !.intact = FALSE], Meddle(k, damaged)
      PROVE  TLSInv'
  <2>1. CASE k = "ca"
    <3>1. api[k] \in [key: 1..cas, intact: BOOLEAN]
      BY <1>1, <1>3, <2>1, StoredSecrets
    <3>2. damaged \in [key: 1..cas, intact: BOOLEAN]
      BY <1>3, <3>1
    <3>3. damaged \in [key: 1..(cas + 1), intact: BOOLEAN]
      BY <1>1, <3>2
    <3>4. /\ Storable(With(k, damaged))
          /\ NoneProlonged(With(k, damaged))
      BY <1>1, <2>1, <3>3, WithIsStorable DEF NoneProlonged
    <3> QED BY <1>3, <3>4, MeddleKeepsTLSInv
  <2>2. CASE k # "ca"
    <3>1. k \in Builders /\ api[k] \in Certificate
      BY <1>1, <1>3, <2>2, StoredSecrets DEF Secrets
    <3>2. damaged \in Certificate /\ damaged.left = api[k].left
      BY <1>3, <3>1 DEF Certificate
    <3>3. /\ Storable(With(k, damaged)) /\ With(k, damaged)[k] = damaged
          /\ \A n \in Builders \ {k} : With(k, damaged)[n] = api[n]
      BY <1>1, <3>1, <3>2, WithIsStorable, Constants
    <3>4. NoneProlonged(With(k, damaged))
      BY <1>3, <3>2, <3>3 DEF NoneProlonged
    <3> QED BY <1>3, <3>3, <3>4, MeddleKeepsTLSInv
  <2> QED BY <2>1, <2>2
<1>4. ASSUME Meddle("ca", generateCA) PROVE TLSInv'
  <2>1. generateCA \in [key: 1..(cas + 1), intact: BOOLEAN]
    BY <1>1 DEF generateCA
  <2>2. /\ Storable(With("ca", generateCA))
        /\ NoneProlonged(With("ca", generateCA))
    BY <1>1, <2>1, WithIsStorable DEF NoneProlonged
  <2> QED BY <1>4, <2>2, Constants, MeddleKeepsTLSInv
<1> QED BY <1>2, <1>3, <1>4 DEF EditSecret

\* A certificate keeps its kind as it ages, and loses one unit of time.
LEMMA AgedCertificate ==
  ASSUME cas \in Nat, NEW sec \in Certificate
  PROVE  /\ Aged(sec) \in Certificate
         /\ Aged(sec).left \in Nat /\ Aged(sec).left + 1 >= sec.left
<1>1. sec # None /\ sec.left \in 0..Validity
  BY SecretsArePresent
<1>2. CASE sec.left = 0
  BY <1>1, <1>2 DEF Aged
<1>3. CASE sec.left # 0
  <2>1. sec.left - 1 \in 0..Validity /\ Aged(sec) = [sec EXCEPT !.left = sec.left - 1]
    BY <1>1, <1>3, Constants DEF Aged
  <2> QED BY <1>1, <2>1, Constants DEF Certificate
<1> QED BY <1>2, <1>3

\* Time passes when nothing can be done.  A builder that is not stuck is not
\* waiting then, so its certificate need not be renewed yet; that of a stuck one
\* loses a unit of time, which is counted.
LEMMA TickKeepsTLSInv ==
  ASSUME TLSInv, Tick
  PROVE  TLSInv'
<1>1. /\ TLSTypeOK /\ Counters /\ CAsStored /\ NoCertForgotten /\ Unexpired
      /\ cas \in Nat
  BY StoredSecrets DEF TLSInv
<1>2. /\ api' = [k \in Secrets |-> IF k = "ca" THEN api[k] ELSE Aged(api[k])]
      /\ seen' = api' /\ lag = {} /\ pc = "idle" /\ queue' = Builders
      /\ UNCHANGED <<exposure, lag, cas, pc, name, host, signer, edits, faults,
                     meddling, failing>>
  BY DEF Tick, worker
<1>3. \A n \in Builders : hindered'[n] = IF ~Stuck(n) THEN 0
                                        ELSE IF hindered[n] + 1 < RenewBefore
                                        THEN hindered[n] + 1 ELSE hindered[n]
  BY DEF Tick
<1>4. /\ api'["ca"] = api["ca"]
      /\ \A n \in Builders : api'[n] = Aged(api[n])
  BY <1>2, Constants
<1>5. \A n \in Builders : /\ api'[n] \in Certificate \cup {None}
                          /\ api'[n] # None => api[n] \in Certificate
  BY <1>1, <1>4, AgedCertificate, StoredSecrets DEF Aged
<1>6. TLSTypeOK'
  <2>1. \A k \in Secrets : Secret(k)' = Secret(k)
    BY <1>2 DEF Secret, Certificate
  <2>2. ASSUME NEW k \in Secrets PROVE api'[k] \in Secret(k)
    <3>1. CASE k = "ca"
      BY <1>1, <1>4, <3>1 DEF TLSTypeOK
    <3>2. CASE k # "ca"
      BY <1>5, <3>2, SecretKinds DEF Secrets
    <3> QED BY <3>1, <3>2
  <2> QED BY <1>1, <1>2, <2>1, <2>2 DEF TLSTypeOK
<1>7. Counters'
  <2>1. \A n \in Builders : hindered[n] \in 0..(RenewBefore - 1)
    BY <1>1 DEF Counters
  <2>2. \A n \in Builders : hindered'[n] \in 0..(RenewBefore - 1)
    BY <1>3, <2>1, Constants
  <2>3. hindered' \in [Builders -> 0..(RenewBefore - 1)]
    <3>1. hindered' = [n \in Builders |-> hindered'[n]]
      BY DEF Tick
    <3> QED BY <2>2, <3>1
  <2> QED BY <1>1, <1>2, <2>3 DEF Counters
<1>8. CachesAgree' /\ HostIsCurrent' /\ CAsStored' /\ NoCertForgotten'
  BY <1>1, <1>2, <1>4
  DEF CachesAgree, HostIsCurrent, CAsStored, NoCertForgotten, Pending
<1>9. Unexpired'
  <2> SUFFICES ASSUME NEW n \in Builders, api'[n] # None
               PROVE  api'[n].left + hindered'[n] + 1 >= RenewBefore
    BY DEF Unexpired
  <2>1. /\ api[n] \in Certificate /\ api[n] # None
        /\ api[n].left \in 0..Validity /\ hindered[n] \in Nat
    BY <1>1, <1>5, SecretsArePresent, Constants DEF Counters
  <2>2. api'[n].left \in Nat /\ api'[n].left + 1 >= api[n].left
    BY <1>4, <2>1, AgedCertificate, <1>1, Constants
  <2>3. CASE Stuck(n)
    <3>1. api[n].left + hindered[n] + 1 >= RenewBefore
      BY <1>1, <2>1 DEF Unexpired
    <3>2. CASE hindered[n] + 1 < RenewBefore
      BY <1>3, <2>1, <2>2, <2>3, <3>1, <3>2, Constants
    <3>3. CASE ~(hindered[n] + 1 < RenewBefore)
      BY <1>3, <2>1, <2>2, <2>3, <3>3, Constants
    <3> QED BY <3>2, <3>3
  <2>4. CASE ~Stuck(n)
    <3>1. n \notin Pending
      BY <1>2, <2>4 DEF Pending, Tick
    <3>2. api[n].left >= RenewBefore
      BY <1>1, <2>1, <3>1 DEF NoCertForgotten, CertMatches
    <3> QED BY <1>3, <2>1, <2>2, <2>4, <3>2, Constants
  <2> QED BY <2>3, <2>4
<1> QED BY <1>6, <1>7, <1>8, <1>9 DEF TLSInv

-----------------------------------------------------------------------------
(* The theorems.                                                           *)

\* TLSInv holds in every history of edits, faults, stale caches, manual edits
\* of the Secrets and passing time.
THEOREM TLSInvariant == Spec => []TLSInv
<1>1. TLSInv /\ [Next]_vars => TLSInv'
  <2> SUFFICES ASSUME TLSInv, [Next]_vars PROVE TLSInv'
    OBVIOUS
  <2>1. CASE Reconcile
    <3>1. UNCHANGED environment
      BY <2>1 DEF Reconcile
    <3>2. CASE \E n \in Builders : ReturnEarly(n) \/ BeginReconcile(n)
      BY <3>1, <3>2, EarlyReturnKeepsTLSInv, BeginKeepsTLSInv
    <3>3. CASE deleteBuilderServerCert
      BY <3>1, <3>3, DeleteKeepsTLSInv
    <3>4. CASE ensureNamespaceCA
      BY <3>1, <3>4, CAKeepsTLSInv
    <3>5. CASE ensureBuilderServerCert
      BY <3>1, <3>5, CertKeepsTLSInv
    <3> QED BY <2>1, <3>2, <3>3, <3>4, <3>5 DEF Reconcile
  <2>2. CASE RestartController
    BY <2>2, RestartKeepsTLSInv
  <2>3. CASE \E k \in Secrets : Sync(k)
    BY <2>3, SyncKeepsTLSInv
  <2>4. CASE \E n \in Builders, h \in Hosts \cup {None} : Expose(n, h)
    BY <2>4, ExposeKeepsTLSInv
  <2>5. CASE EditSecret
    BY <2>5, EditSecretKeepsTLSInv
  <2>6. CASE Tick
    BY <2>6, TickKeepsTLSInv
  <2>7. CASE \E n \in Builders : TakeAway(n) \/ GiveBack(n)
    BY <2>7, NeedsKeepTLSInv
  <2>8. CASE UNCHANGED vars
    BY <2>8
    DEF vars, worker, TLSInv, TLSTypeOK, Secret, Certificate, Counters, CachesAgree,
        HostIsCurrent, CAsStored, NoCertForgotten, Pending, CertMatches, Unexpired
  <2> QED BY <2>1, <2>2, <2>3, <2>4, <2>5, <2>6, <2>7, <2>8 DEF Next
<1> QED BY <1>1, InitKeepsTLSInv, PTL DEF Spec

\* Nothing but CAs and certificates of stored CAs is in the Secrets: a CA that
\* loses the race in ensureNamespaceCA signs nothing.
THEOREM SecretsTyped == Spec => []TLSTypeOK
<1>1. TLSInv => TLSTypeOK
  BY DEF TLSInv
<1> QED BY <1>1, TLSInvariant, PTL

\* While nobody edits the Secrets by hand one CA is all a namespace ever has:
\* two reconciles that both find none in a stale cache do not make two.
THEOREM NamespaceHasOneCA == Spec => []OneCA
<1>1. TLSInv => OneCA
  <2> SUFFICES ASSUME TLSInv, meddling = 0, NEW n \in Builders, api[n] # None
               PROVE  api["ca"] # None /\ api[n].signer = api["ca"].key
    BY DEF OneCA
  <2>1. TLSTypeOK /\ CAsStored /\ cas \in Nat
    BY StoredSecrets DEF TLSInv
  <2>2. api[n] \in Certificate /\ api[n].signer \in 1..cas
    BY <2>1, StoredSecrets, SecretsArePresent
  <2>3. api["ca"] # None /\ cas <= 1
    BY <2>1, <2>2 DEF CAsStored
  <2>4. api["ca"].key \in 1..cas
    BY <2>1, <2>3, StoredSecrets
  <2> QED BY <2>1, <2>2, <2>3, <2>4
<1> QED BY <1>1, TLSInvariant, PTL

\* An exposed builder's certificate does not run out unless its reconcile has been
\* kept from it, or from the CA, for as long as renewBefore less one unit of time.
THEOREM CertificatesInForce == Spec => []CertInForce
<1>1. TLSInv => CertInForce
  <2> SUFFICES ASSUME TLSInv, NEW n \in Builders, api[n] # None,
                      hindered[n] + 1 < RenewBefore
               PROVE  api[n].left > 0
    BY DEF CertInForce
  <2>1. /\ api[n] \in Certificate /\ cas \in Nat /\ hindered[n] \in Nat
        /\ api[n].left + hindered[n] + 1 >= RenewBefore
    BY StoredSecrets, Constants DEF TLSInv, Counters, Unexpired
  <2>2. api[n].left \in 0..Validity
    BY <2>1, SecretsArePresent
  <2> QED BY <2>1, <2>2, Constants
<1> QED BY <1>1, TLSInvariant, PTL

\* A builder that nothing will bring back to the worker before time passes has
\* the certificate its exposure asks for, or none when it is not exposed.
THEOREM NothingForgotten == Spec => []NoCertForgotten
<1>1. TLSInv => NoCertForgotten
  BY DEF TLSInv
<1> QED BY <1>1, TLSInvariant, PTL

=============================================================================
