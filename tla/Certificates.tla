---------------------------- MODULE Certificates ----------------------------
(***************************************************************************)
(* setupTLS: the chain of cert-manager objects behind one Cryostat CR.     *)
(*                                                                         *)
(* A self-signed issuer issues the CA certificate, the CA's secret makes   *)
(* the CA issuer, and that issues the certificates of the components and   *)
(* of the agents, one per target namespace.  cert-manager keeps the result *)
(* of each certificate in a secret.  The operator copies the CA and the    *)
(* agent's secret to each target namespace and gives the CA to the Route.  *)
(*                                                                         *)
(* The operator may be newer than the objects it finds: a certificate with *)
(* another spec is deleted with its secret and created again, and when the *)
(* issuer names another CA, all that the old CA issued is deleted first.   *)
(* Certificates, issuers and secrets are read from three caches that lag.  *)
(* The CR is live, its TLS is enabled and its spec does not change.        *)
(***************************************************************************)
EXTENDS Naturals, FiniteSets

CONSTANTS Components,        \* components with a certificate of their own
          Keystores,         \* those whose certificate asks for a PKCS12 keystore
          Namespaces,        \* target namespaces, each with an agent certificate
          InstallNamespace,
          OldOwners,         \* owners older versions gave to certificate secrets
          Profiles,          \* whether the CRD knows the PKCS12 profile at first
          Tampered,          \* secrets that users delete
          None,              \* "no such object"
          MaxEdits,          \* bound: upgrades of cert-manager, renewals, tampering
          MaxFaults          \* bound: failed calls and operator restarts

ASSUME ConstantsAssumption ==
  /\ Keystores \subseteq Components
  /\ Components \intersect Namespaces = {}
  /\ {"ca", "caOld", "caNew", "keystore"} \intersect (Components \union Namespaces) = {}
  /\ Profiles \subseteq BOOLEAN
  /\ IsFiniteSet(Components) /\ IsFiniteSet(Namespaces)
  /\ MaxEdits \in Nat /\ MaxFaults \in Nat

VARIABLES
  cert,        \* certificate -> [uid, spec, ready, rev], or None
  issuer,      \* [self, ca]: the self-signed issuer, and the secret the CA issuer names
  secret,      \* <<namespace, name>> -> [owner, spec, ca, rev], or None
  certSeen, issuerSeen, secretSeen,  \* the same in the caches
  news,        \* kinds of events the watches have still to deliver
  profile,     \* the Certificate CRD knows the PKCS12 profile
  condition,   \* TLSSetupComplete
  route,       \* the CA the Route trusts
  queued,
  pc,          \* the next call of the running reconcile, or "idle"
  cur,         \* the certificate or namespace it is at
  todo,        \* those it has still to visit
  want,        \* the spec recreateCertificate goes on with, or None
  held,        \* the certificates setupTLS has in its hands
  heldIssuer,  \* the CA issuer it is about to update
  chain,       \* the certificates deleteCertChain listed, with their specs
  caBytes,     \* the CA it read
  unready,     \* an agent certificate was not ready
  lagged,      \* history: the certificates whose secret the last reconcile read from a
               \* cache that did not have the present content
  interrupted, \* history: the reconcile ended between deleting a certificate and its secret
  edits, faults

serverVars == <<cert, issuer, secret>>
cacheVars  == <<certSeen, issuerSeen, secretSeen>>
readVars   == <<heldIssuer, chain, caBytes, unready, lagged>>
localVars  == <<pc, cur, todo, want, held, readVars>>
crVars     == <<condition, route>>
bounds     == <<edits, faults>>
vars == <<serverVars, cacheVars, news, profile, crVars, queued, localVars, interrupted, bounds>>

Leaves  == Components \union Namespaces
Certs   == {"ca"} \union Leaves
CANames == {"caOld", "caNew"}
Remote  == Namespaces \ {InstallNamespace}

\* Certificates' secrets and the keystore password in the install namespace, and
\* the copies of the CA and of the agent's secret in the other target namespaces.
Secrets == ({InstallNamespace} \X (CANames \union Leaves \union {"keystore"}))
           \union (Remote \X CANames) \union {<<ns, ns>> : ns \in Remote}

Home(n) == <<InstallNamespace, n>>

\* A CA is known by the secret it is kept in, and a number: whenever the CA's
\* certificate is issued again there is another CA under the same name.
CAType == (CANames \union {None}) \X Nat
NoCA   == <<None, 0>>

CertSpecs  == {"old", "legacy", "new"}
CertType   == [uid : Nat \ {0, 1}, spec : CertSpecs, ready : BOOLEAN, rev : Nat]
SecretType == [owner : Nat, spec : CertSpecs \union {"copy"}, ca : CAType, rev : Nat]

ASSUME NamesAssumption ==
  /\ Tampered \subseteq Secrets
  /\ None \notin Certs \union CANames \union CertSpecs
  /\ None \notin CertType \union SecretType

\* The secret a certificate names.  The CA's was renamed by a newer operator.
SecretName(c, spec) ==
  IF c # "ca" THEN c ELSE IF spec = "old" THEN "caOld" ELSE "caNew"

\* The spec of the operator's own version; "legacy" is the same spec without the
\* PKCS12 profile, for a CRD that does not know it.
Desired(c) == IF c \in Keystores /\ ~profile THEN "legacy" ELSE "new"

\* Owners of secrets: nobody, the CR, or a certificate by its uid.
Nobody == 0
TheCR  == 1

\* Uids and contents are only compared for equality, so the least identifier that
\* nothing refers to any more is as good as a new one.
Fresh(used) == CHOOSE n \in 2 .. Cardinality(used) + 2 : n \notin used

Present(x) == {k \in DOMAIN x : x[k] # None}

\* What refers to an incarnation of a certificate, to a version of a secret's
\* content, and to a CA.
UIDs(c) ==
  (UNION {{x[c].uid : d \in Present(x) \intersect {c}} : x \in {cert, certSeen, held}}) \union
  (UNION {{x[s].owner : s \in Present(x) \intersect
                          {Home(n) : n \in IF c = "ca" THEN CANames ELSE {c}}}
          : x \in {secret, secretSeen}})
Revs(n) ==
  (UNION {{x[s].rev : s \in {t \in Present(x) : t[2] = n}} : x \in {secret, secretSeen}}) \union
  (UNION {{x[c].rev : c \in {d \in Present(x) : SecretName(d, x[d].spec) = n}}
          : x \in {cert, certSeen}})
CAs == {caBytes[2], route[2]} \union
       (UNION {{x[s].ca[2] : s \in Present(x)} : x \in {secret, secretSeen}})

NewCert(c, spec) == [uid |-> Fresh(UIDs(c)), spec |-> spec, ready |-> FALSE, rev |-> 0]

NoHeld == [c \in Certs |-> None]

\* The objects an older version of the operator left behind: another CA with its
\* issuer, and certificates of components with an older spec or not.
OldSpec(specs, c) == IF c = "ca" \/ specs[c] = "old" THEN "old" ELSE Desired(c)

OldSecret(o, specs, s) ==
  LET old(c) == [owner |-> IF o = "cert" THEN 2 ELSE TheCR, spec |-> OldSpec(specs, c),
                 ca |-> <<"caOld", 2>>, rev |-> 2]
  IN  CASE s = Home("keystore") -> [owner |-> TheCR, spec |-> "new", ca |-> NoCA, rev |-> 2]
        [] s = Home("caOld") -> old("ca")
        [] \E c \in Components : s = Home(c) -> old(s[2])
        [] s \in Remote \X {"caOld"} -> [owner |-> Nobody, spec |-> "copy",
                                          ca |-> <<"caOld", 2>>, rev |-> 0]
        [] OTHER -> None

LeftBehind(o, specs) ==
  /\ cert = [c \in Certs |->
               IF c \in Namespaces THEN None
               ELSE [uid |-> 2, spec |-> OldSpec(specs, c), ready |-> TRUE, rev |-> 2]]
  /\ issuer = [self |-> TRUE, ca |-> "caOld"]
  /\ secret = [s \in Secrets |-> OldSecret(o, specs, s)]
  /\ condition = "Ready" /\ route = <<"caOld", 2>>

NothingYet ==
  /\ cert = [c \in Certs |-> None]
  /\ issuer = [self |-> FALSE, ca |-> None]
  /\ secret = [s \in Secrets |-> None]
  /\ condition = "Unset" /\ route = NoCA

\* A new CR, or one that an older version has set up.
Init ==
  /\ profile \in Profiles
  /\ \/ NothingYet
     \/ \E o \in OldOwners, specs \in [Components -> {"old", "same"}] : LeftBehind(o, specs)
  /\ certSeen = cert /\ issuerSeen = issuer /\ secretSeen = secret
  /\ news = {} /\ queued = TRUE
  /\ pc = "idle" /\ cur = None /\ todo = {} /\ want = None /\ held = NoHeld
  /\ heldIssuer = None /\ chain = {} /\ caBytes = NoCA /\ unready = FALSE /\ lagged = {}
  /\ interrupted = FALSE /\ edits = 0 /\ faults = 0

-----------------------------------------------------------------------------
(* The reconcile.                                                          *)

\* Mutant: target namespaces are not watched.
WakesByOwner(s) == \E x \in {secret[s], secret'[s]} : x # None /\ x.owner = TheCR

\* Secrets of certificates wake nobody: only those the CR owns and the labelled
\* copies in target namespaces do.
Wakes(s) ==
  \/ s[1] # InstallNamespace
  \/ \E x \in {secret[s], secret'[s]} : x # None /\ x.owner = TheCR

\* The events of a step; "waking" are those of secrets that wake the operator.
Events ==
  {k \in {"certs", "issuers", "secrets", "waking"} :
     \/ k = "certs" /\ cert' # cert
     \/ k = "issuers" /\ issuer' # issuer
     \/ k = "secrets" /\ secret' # secret
     \/ k = "waking" /\ \E s \in Secrets : secret'[s] # secret[s] /\ Wakes(s)}

Announce == news' = news \union Events

\* The end of a reconcile; after an error or a wait the key is queued again.
Forget ==
  /\ pc' = "idle" /\ cur' = None /\ todo' = {} /\ want' = None /\ held' = NoHeld
  /\ heldIssuer' = None /\ chain' = {} /\ caBytes' = NoCA /\ unready' = FALSE
  /\ UNCHANGED lagged

\* Mutant: an error or a wait is not requeued.
ReturnForgets(requeue) == Forget /\ UNCHANGED queued

Return(requeue) == Forget /\ queued' = (queued \/ requeue)

Fail ==
  /\ Return(TRUE)
  /\ UNCHANGED <<serverVars, news, cacheVars, profile, crVars, interrupted, bounds>>

\* One call of the running reconcile.
Step(l) == pc = l /\ UNCHANGED <<cacheVars, profile, crVars, interrupted, bounds>>

\* Go on to the certificates of a set, one after the other, and then to a label.
VisitCerts(S, l) ==
  IF S = {} THEN pc' = l /\ cur' = None /\ todo' = {}
  ELSE \E c \in S : pc' = "cert" /\ cur' = c /\ todo' = S \ {c}

\* Go on to the next target namespace, or to what follows the loop.
VisitNamespaces(S) ==
  IF S = {} THEN /\ cur' = None /\ todo' = Certs
                 /\ pc' = IF unready' THEN "waiting" ELSE "owners"
  ELSE \E ns \in S : pc' = "caCopy" /\ cur' = ns /\ todo' = S \ {ns}

Reconcile ==
  /\ pc = "idle" /\ queued
  /\ queued' = FALSE /\ pc' = "selfSigned" /\ lagged' = {}
  /\ UNCHANGED <<serverVars, news, cacheVars, profile, crVars, cur, todo, want, held,
                 heldIssuer, chain, caBytes, unready, interrupted, bounds>>

CreateSelfSignedIssuer ==
  \/ /\ Step("selfSigned")
     /\ issuerSeen.self \/ ~issuer.self
     /\ issuer' = [issuer EXCEPT !.self = TRUE]
     /\ VisitCerts({"ca"}, "issuer")
     /\ UNCHANGED <<cert, secret, queued, want, held, readVars>> /\ Announce
  \/ pc = "selfSigned" /\ ~issuerSeen.self /\ issuer.self /\ Fail

\* What follows the visit of a certificate.
AfterCert(c) ==
  CASE c = "ca"           -> VisitCerts({}, "issuer")
    [] c \in Components   -> VisitCerts(todo, "caBytes")
    [] c \in Namespaces   -> pc' = "agentCopy" /\ UNCHANGED <<cur, todo>>

\* The spec createOrUpdateCertificate asks for: decided by a dry run on the first
\* call, kept in its recursion through recreateCertificate.
Wanted(c) == IF want = None THEN Desired(c) ELSE want

\* setupTLS keeps the certificate that the first call read or created.
Hold(c, x) == held' = IF want = None THEN [held EXCEPT ![c] = x] ELSE held

KeepCertificate ==
  /\ Step("cert")
  /\ certSeen[cur] # None /\ certSeen[cur].spec = Wanted(cur)
  /\ Hold(cur, certSeen[cur]) /\ want' = None
  /\ AfterCert(cur)
  /\ UNCHANGED <<serverVars, news, queued, readVars>>

CreateCertificate ==
  \/ /\ Step("cert")
     /\ certSeen[cur] = None /\ cert[cur] = None
     /\ cert' = [cert EXCEPT ![cur] = NewCert(cur, Wanted(cur))]
     /\ Hold(cur, cert'[cur]) /\ want' = None
     /\ AfterCert(cur)
     /\ UNCHANGED <<issuer, secret, queued, readVars>> /\ Announce
  \/ pc = "cert" /\ certSeen[cur] = None /\ cert[cur] # None /\ Fail

\* Mutant: the profile is asked for although the CRD drops it.
RecreateForProfile ==
  /\ Step("cert")
  /\ certSeen[cur] # None /\ certSeen[cur].spec # "new"
  /\ cert' = [cert EXCEPT ![cur] = None]
  /\ Hold(cur, certSeen[cur]) /\ want' = Wanted(cur)
  /\ pc' = "certSecret"
  /\ UNCHANGED <<issuer, secret, queued, cur, todo, readVars>> /\ Announce

\* recreateCertificate: delete the certificate by its name, then the secret that
\* the new spec names, then look again -- at a cache that may show the old one still.
RecreateCertificate ==
  /\ Step("cert")
  /\ certSeen[cur] # None /\ certSeen[cur].spec # Wanted(cur)
  /\ cert' = [cert EXCEPT ![cur] = None]
  /\ Hold(cur, certSeen[cur]) /\ want' = Wanted(cur)
  /\ pc' = "certSecret"
  /\ UNCHANGED <<issuer, secret, queued, cur, todo, readVars>> /\ Announce

DeleteCertSecret ==
  /\ Step("certSecret")
  /\ secret' = [secret EXCEPT ![Home(SecretName(cur, want))] = None]
  /\ pc' = "cert"
  /\ UNCHANGED <<cert, issuer, queued, cur, todo, want, held, readVars>> /\ Announce

\* Mutant: an issuer is updated without a look at its CA.
IssuerUpdatedInPlace ==
  /\ Step("issuer")
  /\ heldIssuer' = issuerSeen.ca
  /\ chain' = {}
  /\ pc' = "issuerUpdate"
  /\ UNCHANGED <<serverVars, news, queued, cur, todo, want, held, caBytes, unready, lagged>>

\* The CA issuer is read.  If it names another CA, the certificates that the cache
\* shows are listed, except the one for the new CA's secret.
ReadCAIssuer ==
  /\ Step("issuer")
  /\ heldIssuer' = issuerSeen.ca
  /\ chain' = IF issuerSeen.ca \in {None, "caNew"} THEN {}
              ELSE {<<c, certSeen[c].spec>> : c \in
                      {d \in Present(certSeen) : SecretName(d, certSeen[d].spec) # "caNew"}}
  /\ pc' = IF chain' = {} THEN "issuerUpdate" ELSE "chainCert"
  /\ UNCHANGED <<serverVars, news, queued, cur, todo, want, held, caBytes, unready, lagged>>

\* deleteCertChain, by names: whatever now has the name of a listed certificate goes.
DeleteChainCert ==
  /\ Step("chainCert")
  /\ \E x \in chain : /\ cert' = [cert EXCEPT ![x[1]] = None]
                       /\ cur' = x[1] /\ want' = x[2] /\ chain' = chain \ {x}
  /\ pc' = "chainSecret"
  /\ UNCHANGED <<issuer, secret, queued, todo, held, heldIssuer, caBytes, unready, lagged>>
  /\ Announce

DeleteChainSecret ==
  /\ Step("chainSecret")
  /\ secret' = [secret EXCEPT ![Home(SecretName(cur, want))] = None]
  /\ pc' = (IF chain = {} THEN "issuerUpdate" ELSE "chainCert")
  /\ cur' = None /\ want' = None
  /\ UNCHANGED <<cert, issuer, queued, todo, held, readVars>> /\ Announce

\* The issuer is created, or updated if it is still the one that was read.
UpdateCAIssuer ==
  \/ /\ Step("issuerUpdate")
     /\ heldIssuer = issuer.ca \/ heldIssuer = "caNew"
     /\ issuer' = [issuer EXCEPT !.ca = "caNew"]
     /\ heldIssuer' = None /\ pc' = "keystore"
     /\ UNCHANGED <<cert, secret, queued, cur, todo, want, held, chain, caBytes, unready,
                    lagged>>
     /\ Announce
  \/ /\ pc = "issuerUpdate"
     /\ heldIssuer # issuer.ca /\ heldIssuer # "caNew"
     /\ Fail

\* A random password, generated once.
CreateKeystoreSecret ==
  \/ /\ Step("keystore")
     /\ secretSeen[Home("keystore")] # None \/ secret[Home("keystore")] = None
     /\ secret' = IF secretSeen[Home("keystore")] # None THEN secret
                  ELSE [secret EXCEPT ![Home("keystore")] =
                          [owner |-> TheCR, spec |-> "new", ca |-> NoCA,
                           rev |-> Fresh(Revs("keystore"))]]
     /\ VisitCerts(Components, "caBytes")
     /\ UNCHANGED <<cert, issuer, queued, want, held, readVars>> /\ Announce
  \/ /\ pc = "keystore" /\ secretSeen[Home("keystore")] = None
     /\ secret[Home("keystore")] # None /\ Fail

\* GetCertificateSecret: the cached secret that the certificate in hand names.
CertSecret(c) == secretSeen[Home(SecretName(c, held[c].spec))]

\* The same secret on the server.
ServerSecret(c) == secret[Home(SecretName(c, held[c].spec))]

Content(x) == <<x.ca, x.rev>>

\* Note whether the secret that is read has the present content.
Note(c) ==
  lagged' = IF ServerSecret(c) = None \/ Content(CertSecret(c)) # Content(ServerSecret(c))
            THEN lagged \union {c} ELSE lagged \ {c}

\* Mutant: the secret is there, its content is not looked at.
ReadNoCA ==
  /\ Step("caBytes") /\ UNCHANGED readVars
  /\ IF held["ca"].ready THEN VisitNamespaces(Namespaces)
     ELSE pc' = "waiting" /\ UNCHANGED <<cur, todo>>
  /\ UNCHANGED <<serverVars, news, queued, want, held>>

ReadCA ==
  \/ /\ Step("caBytes")
     /\ held["ca"].ready /\ CertSecret("ca") # None
     /\ caBytes' = CertSecret("ca").ca /\ Note("ca")
     /\ UNCHANGED unready /\ VisitNamespaces(Namespaces)
     /\ UNCHANGED <<serverVars, news, queued, want, held, heldIssuer, chain>>
  \/ /\ Step("caBytes") /\ ~held["ca"].ready
     /\ pc' = "waiting"
     /\ UNCHANGED <<serverVars, news, queued, cur, todo, want, held, readVars>>
  \/ pc = "caBytes" /\ held["ca"].ready /\ CertSecret("ca") = None /\ Fail

\* CreateOrUpdate of a secret in a target namespace: nothing to do, create, update
\* what the cache shows, or an error because the cache is behind.
CopyTo(s, x) ==
  /\ secretSeen[s] = x \/ secretSeen[s] = secret[s]
  /\ secret' = IF secretSeen[s] = x THEN secret ELSE [secret EXCEPT ![s] = x]
CopyRefused(s, x) == secretSeen[s] # x /\ secretSeen[s] # secret[s]

CACopy == [owner |-> Nobody, spec |-> "copy", ca |-> caBytes, rev |-> 0]

\* The copy has the name of the secret of the CA certificate in hand.
CopyCASecret ==
  LET s == <<cur, SecretName("ca", held["ca"].spec)>>
  IN  \/ /\ Step("caCopy")
         /\ IF cur = InstallNamespace THEN UNCHANGED secret ELSE CopyTo(s, CACopy)
         /\ pc' = "cert"
         /\ UNCHANGED <<cert, issuer, queued, cur, todo, want, held, readVars>> /\ Announce
      \/ pc = "caCopy" /\ cur # InstallNamespace /\ CopyRefused(s, CACopy) /\ Fail

\* The rest of reconcileAgentCertificate.  Other namespaces go on if an agent
\* certificate is not ready.
CopyAgentSecret ==
  LET copy == [CertSecret(cur) EXCEPT !.owner = Nobody]
      s    == <<cur, cur>>
  IN  \/ /\ Step("agentCopy")
         /\ IF cur = InstallNamespace THEN UNCHANGED <<secret, unready, lagged>>
            ELSE IF ~held[cur].ready THEN unready' = TRUE /\ UNCHANGED <<secret, lagged>>
            ELSE CertSecret(cur) # None /\ CopyTo(s, copy) /\ Note(cur) /\ UNCHANGED unready
         /\ VisitNamespaces(todo)
         /\ UNCHANGED <<cert, issuer, queued, want, held, heldIssuer, chain, caBytes>>
         /\ Announce
      \/ /\ pc = "agentCopy" /\ cur # InstallNamespace /\ held[cur].ready
         /\ IF CertSecret(cur) = None THEN TRUE ELSE CopyRefused(s, copy)
         /\ Fail

\* setCertSecretOwner visits the certificates in a fixed order; here, the next one.
NextOwner == CHOOSE c \in todo : TRUE

Owned(c) ==
  /\ secret' = [secret EXCEPT ![Home(SecretName(c, held[c].spec))].owner = held[c].uid]
  /\ todo' = todo \ {c} /\ UNCHANGED pc

\* A secret that the certificate in hand does not own yet is taken from the CR and
\* given to it, if the cached secret is the server's.
SetCertSecretOwner ==
  /\ Step("owners") /\ todo # {}
  /\ LET c == NextOwner
     IN  \/ /\ held[c].ready /\ CertSecret(c) # None
            /\ \/ /\ CertSecret(c).owner = held[c].uid
                  /\ todo' = todo \ {c} /\ UNCHANGED <<pc, secret>>
               \/ /\ CertSecret(c).owner # held[c].uid /\ CertSecret(c) = ServerSecret(c)
                  /\ Owned(c)
         \/ ~held[c].ready /\ pc' = "waiting" /\ UNCHANGED <<secret, todo>>
  /\ UNCHANGED <<cert, issuer, queued, cur, want, held, readVars>> /\ Announce

OwnerRefused ==
  /\ pc = "owners" /\ todo # {}
  /\ LET c == NextOwner
     IN  /\ held[c].ready
         /\ IF CertSecret(c) = None THEN TRUE
            ELSE CertSecret(c).owner # held[c].uid /\ CertSecret(c) # ServerSecret(c)
  /\ Fail

\* configureTLS: waiting for certificates, look again in 5 seconds.
CertsNotReady ==
  /\ pc = "waiting"
  /\ condition' = "Waiting"
  /\ Return(TRUE)
  /\ UNCHANGED <<serverVars, news, cacheVars, profile, route, interrupted, bounds>>

AllCertsReady ==
  /\ pc = "owners" /\ todo = {}
  /\ condition' = "Ready" /\ pc' = "route"
  /\ UNCHANGED <<serverVars, news, cacheVars, profile, route, queued, cur, todo, want, held,
                 readVars, interrupted, bounds>>

\* The Route gets the CA that was read; nothing else of the reconcile is modelled.
ReconcileRoute ==
  /\ pc = "route"
  /\ route' = caBytes
  /\ Return(FALSE)
  /\ UNCHANGED <<serverVars, news, cacheVars, profile, condition, interrupted, bounds>>

-----------------------------------------------------------------------------
(* Informers, cert-manager and the garbage collector.                      *)

Outside == UNCHANGED <<profile, crVars, localVars, interrupted, bounds>>

\* Nothing runs, nothing is queued, every event has been delivered.
AtRest == pc = "idle" /\ ~queued /\ news = {}

SyncCerts ==
  /\ "certs" \in news /\ news' = news \ {"certs"}
  /\ certSeen' = cert /\ queued' = TRUE
  /\ UNCHANGED <<serverVars, issuerSeen, secretSeen>> /\ Outside

SyncIssuers ==
  /\ "issuers" \in news /\ news' = news \ {"issuers"}
  /\ issuerSeen' = issuer /\ queued' = TRUE
  /\ UNCHANGED <<serverVars, certSeen, secretSeen>> /\ Outside

SyncSecrets ==
  /\ "secrets" \in news /\ news' = news \ {"secrets", "waking"}
  /\ secretSeen' = secret /\ queued' = (queued \/ "waking" \in news)
  /\ UNCHANGED <<serverVars, certSeen, issuerSeen>> /\ Outside

\* The informers' resync wakes everything up.  It comes every 10 hours, so the
\* operator is at rest.
Resync ==
  /\ AtRest /\ queued' = TRUE
  /\ UNCHANGED <<serverVars, cacheVars, news>> /\ Outside

\* The secret that cert-manager finds for a certificate.
SecretOf(c) == Home(SecretName(c, cert[c].spec))

Issued(c) == secret[SecretOf(c)] # None /\ secret[SecretOf(c)].spec = cert[c].spec

Issuable(c) ==
  IF c = "ca" THEN issuer.self
  ELSE /\ issuer.ca # None /\ secret[Home(issuer.ca)] # None
       /\ c \in Keystores => secret[Home("keystore")] # None

\* cert-manager issues what is missing or does not fit the spec; a secret that fits
\* is adopted, whoever signed it.
Issue(c, s) ==
  secret' = [secret EXCEPT ![s] =
    [owner |-> IF secret[s] = None THEN Nobody ELSE secret[s].owner,
     spec  |-> cert[c].spec,
     ca    |-> IF c = "ca" THEN <<s[2], Fresh(CAs)>> ELSE secret[Home(issuer.ca)].ca,
     rev   |-> Fresh(Revs(s[2]))]]

IssueCertificate(c) ==
  /\ cert[c] # None /\ Issuable(c) /\ ~Issued(c)
  /\ Issue(c, SecretOf(c))
  /\ UNCHANGED <<cert, issuer, cacheVars, queued>> /\ Announce /\ Outside

\* The certificate's status follows its secret.
StatusOf(c) ==
  [cert[c] EXCEPT !.ready = Issued(c),
                  !.rev   = IF Issued(c) THEN secret[SecretOf(c)].rev ELSE 0]

UpdateCertificate(c) ==
  /\ cert[c] # None /\ StatusOf(c) # cert[c]
  /\ cert' = [cert EXCEPT ![c] = StatusOf(c)]
  /\ UNCHANGED <<issuer, secret, cacheVars, queued>> /\ Announce /\ Outside

\* A secret whose owner was a certificate that is gone.
Garbage(c, n) ==
  LET s == Home(n)
  IN  /\ secret[s] # None /\ secret[s].owner \notin {Nobody, TheCR}
      /\ cert[c] # None => cert[c].uid # secret[s].owner

GarbageCollect(c) ==
  /\ \E n \in IF c = "ca" THEN CANames ELSE {c} :
       Garbage(c, n) /\ secret' = [secret EXCEPT ![Home(n)] = None]
  /\ UNCHANGED <<cert, issuer, cacheVars, queued>> /\ Announce /\ Outside

-----------------------------------------------------------------------------
(* Users, time and failures.                                               *)

Edit == edits < MaxEdits /\ edits' = edits + 1 /\
        UNCHANGED <<cert, issuer, cacheVars, crVars, localVars, queued, interrupted, faults>>

\* cert-manager is upgraded to a version whose CRD knows the PKCS12 profile.
UpgradeCertManager == Edit /\ ~profile /\ profile' = TRUE /\ UNCHANGED <<secret, news>>

\* The certificate is renewed: a new content, signed by the present CA; if it is
\* the CA's, another CA.
Renew(c) ==
  /\ Edit /\ cert[c] # None /\ cert[c].ready /\ Issued(c) /\ Issuable(c)
  /\ Issue(c, SecretOf(c))
  /\ UNCHANGED profile /\ Announce

\* Somebody deletes a certificate's secret or a copy.
DeleteSecret(s) ==
  /\ Edit /\ secret[s] # None
  /\ secret' = [secret EXCEPT ![s] = None]
  /\ UNCHANGED profile /\ Announce

Fault ==
  /\ faults < MaxFaults /\ faults' = faults + 1
  /\ interrupted' = (interrupted \/ pc \in {"certSecret", "chainSecret"})
  /\ UNCHANGED <<serverVars, profile, crVars, edits>>

CallFails == Fault /\ pc # "idle" /\ Return(TRUE) /\ UNCHANGED <<cacheVars, news>>

Restart ==
  /\ Fault /\ Forget /\ queued' = TRUE /\ news' = {}
  /\ certSeen' = cert /\ issuerSeen' = issuer /\ secretSeen' = secret

-----------------------------------------------------------------------------
Worker ==
  \/ Reconcile \/ CreateSelfSignedIssuer
  \/ KeepCertificate \/ CreateCertificate \/ RecreateCertificate \/ DeleteCertSecret
  \/ ReadCAIssuer \/ DeleteChainCert \/ DeleteChainSecret \/ UpdateCAIssuer
  \/ CreateKeystoreSecret \/ ReadCA \/ CopyCASecret \/ CopyAgentSecret
  \/ SetCertSecretOwner \/ OwnerRefused \/ CertsNotReady \/ AllCertsReady \/ ReconcileRoute

CertManager(c) == IssueCertificate(c) \/ UpdateCertificate(c)

Users ==
  \/ UpgradeCertManager
  \/ \E c \in Certs : Renew(c)
  \/ \E s \in Tampered : DeleteSecret(s)

Next ==
  \/ Worker \/ Users
  \/ SyncCerts \/ SyncIssuers \/ SyncSecrets \/ Resync
  \/ \E c \in Certs : CertManager(c) \/ GarbageCollect(c)
  \/ CallFails \/ Restart

Spec == Init /\ [][Next]_vars

\* The worker runs, watches deliver, cert-manager and the garbage collector do
\* their work.  Users and failures are finite and not assumed to do anything.
FairSpec ==
  /\ Spec
  /\ WF_vars(Worker) /\ WF_vars(Resync)
  /\ WF_vars(SyncCerts) /\ WF_vars(SyncIssuers) /\ WF_vars(SyncSecrets)
  /\ WF_vars(\E c \in Certs : CertManager(c))
  /\ WF_vars(\E c \in Certs : GarbageCollect(c))

-----------------------------------------------------------------------------
(* Properties.                                                             *)

Labels == {"idle", "selfSigned", "cert", "certSecret", "issuer", "chainCert", "chainSecret",
           "issuerUpdate", "keystore", "caBytes", "caCopy", "agentCopy", "owners",
           "waiting", "route"}

\* Types; besides, nobody holds a certificate or a CA between two reconciles, and
\* a CA is in hand from the moment it is read.
TypeOK ==
  /\ \A x \in {cert, certSeen, held} : \A c \in Certs : x[c] # None => x[c] \in CertType
  /\ \A x \in {secret, secretSeen} : \A s \in Secrets : x[s] # None => x[s] \in SecretType
  /\ \A x \in {issuer, issuerSeen} :
       x.self \in BOOLEAN /\ x.ca \in CANames \union {None}
  /\ profile \in BOOLEAN /\ queued \in BOOLEAN /\ unready \in BOOLEAN
  /\ condition \in {"Unset", "Waiting", "Ready"}
  /\ pc \in Labels
  /\ pc = "idle" => held = NoHeld /\ chain = {} /\ caBytes = NoCA
  /\ pc \in {"caCopy", "agentCopy", "owners", "route"} => caBytes # NoCA

\* cert-manager has nothing left to do either.
Settled == AtRest /\ \A c \in Certs : cert[c] # None => Issued(c) /\ StatusOf(c) = cert[c]

\* The CA in use: of the secret that the new CA certificate names.
CurrentCA == secret[Home("caNew")].ca

\* Whatever an older version left behind, wherever caches lag, calls fail and
\* certificates are renewed: at rest the certificates have the operator's specs, the
\* issuer names the new CA's secret, the Route and all copies trust the same CA of that
\* name, and the Route has the CA's and the agents' copies have their certificates'
\* present content, except for a secret that was last read from a cache that lagged.
TrustCurrent ==
  Settled =>
    /\ condition = "Ready"
    /\ \A c \in Certs : cert[c] # None /\ cert[c].ready
                        /\ (c \notin Keystores => cert[c].spec = "new")
    /\ issuer = [self |-> TRUE, ca |-> "caNew"]
    /\ route[1] = "caNew" /\ ("ca" \notin lagged => route = CurrentCA)
    /\ \A ns \in Remote :
         /\ secret[<<ns, "caNew">>] # None /\ secret[<<ns, "caNew">>].ca = route
         /\ secret[<<ns, ns>>] # None
         /\ ns \notin lagged => Content(secret[<<ns, ns>>]) = Content(secret[Home(ns)])

\* When the issuer's CA has changed nothing that the previous CA issued is in use: at
\* rest every certificate is signed under the new CA's name, unless some reconcile
\* ended between deleting a certificate and deleting its secret.
ChainCurrent ==
  Settled /\ ~interrupted => \A c \in Leaves : secret[Home(c)].ca[1] = "caNew"

\* The secrets of certificates belong to them, and the Route and the copies have the
\* present content.
Settles ==
  /\ \A c \in Certs : secret[SecretOf(c)] # None /\ secret[SecretOf(c)].owner = cert[c].uid
  /\ route = CurrentCA
  /\ \A ns \in Remote :
       /\ secret[<<ns, "caNew">>] # None /\ secret[<<ns, "caNew">>].ca = CurrentCA
       /\ secret[<<ns, ns>>] # None /\ Content(secret[<<ns, ns>>]) = Content(secret[Home(ns)])

\* However often certificates are deleted and created again on the word of a cache
\* that lags, TLS gets ready in the end and stays so.
TLSSettles == <>[](condition = "Ready" /\ (\A c \in Certs : cert[c] # None) /\ Settles)

-----------------------------------------------------------------------------
(* A statement of the code that the code does not meet.                    *)

\* "delete all certificates the previous CA issued".
OldChainDeleted == Settled => \A c \in Leaves : secret[Home(c)].ca[1] = "caNew"
=============================================================================
