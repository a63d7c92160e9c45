------------------------- MODULE CertificatesProofs -------------------------
(***************************************************************************)
(* Proofs about Certificates: types, that what has to trust the CA trusts  *)
(* the one in use, and that nothing of the previous CA is left.            *)
(***************************************************************************)
EXTENDS Certificates, FiniteSetTheorems, TLAPS

-----------------------------------------------------------------------------
(* Names and numbers.                                                      *)

\* The secret of the CA that this version of the operator uses.
Root == Home("caNew")

\* Names of secrets in the install namespace.
HomeNames == CANames \union Leaves \union {"keystore"}

\* Kinds of certificates, and their names.
LEMMA CertNames ==
  /\ "ca" \in Certs /\ "ca" \notin Leaves
  /\ Components \subseteq Leaves /\ Namespaces \subseteq Leaves
  /\ Leaves \subseteq Certs /\ Certs = {"ca"} \union Leaves
  /\ \A c \in Leaves : c # "caOld" /\ c # "caNew" /\ c # "keystore"
  /\ \A c \in Components : c \notin Namespaces
  /\ "ca" \notin Keystores /\ Remote \subseteq Namespaces
  /\ \A c \in Leaves : c \in Components \/ c \in Namespaces
BY ConstantsAssumption DEF Certs, Leaves, Remote

\* Secrets in the install namespace have different names.
LEMMA Homes ==
  /\ \A n \in HomeNames : Home(n) \in Secrets
  /\ \A n : Home(n)[1] = InstallNamespace /\ Home(n)[2] = n
  /\ \A m, n : Home(m) = Home(n) => m = n
<1>1. \A n \in HomeNames : Home(n) \in Secrets
  BY DEF Home, Secrets, HomeNames
<1>2. \A n : Home(n)[1] = InstallNamespace /\ Home(n)[2] = n
  BY DEF Home
<1> QED BY <1>1, <1>2

\* Copies in other namespaces.
LEMMA Copies ==
  ASSUME NEW ns \in Remote
  PROVE  /\ \A n \in CANames \union {ns} : <<ns, n>> \in Secrets
         /\ \A n : <<ns, n>>[1] = ns /\ <<ns, n>>[2] = n
         /\ \A m : \A n : <<ns, n>> # Home(m)
         /\ ns # InstallNamespace
<1>1. ns # InstallNamespace
  BY DEF Remote
<1>2. \A n \in CANames : <<ns, n>> \in Secrets
  BY DEF Secrets
<1>3. <<ns, ns>> \in Secrets
  BY DEF Secrets
<1>4. \A n : <<ns, n>>[1] = ns /\ <<ns, n>>[2] = n
  OBVIOUS
<1>5. \A m : \A n : <<ns, n>> # Home(m)
  BY <1>1, <1>4, Homes
<1> QED BY <1>1, <1>2, <1>3, <1>4, <1>5

\* The secret that a certificate names.
LEMMA SecretNames ==
  /\ \A c \in Leaves : \A sp : SecretName(c, sp) = c
  /\ SecretName("ca", "old") = "caOld" /\ SecretName("ca", "new") = "caNew"
  /\ \A c \in Certs : \A sp : /\ SecretName(c, sp) \in HomeNames
                              /\ Home(SecretName(c, sp)) \in Secrets
<1>1. \A c \in Leaves : \A sp : SecretName(c, sp) = c
  BY CertNames DEF SecretName
<1>2. SecretName("ca", "old") = "caOld" /\ SecretName("ca", "new") = "caNew"
  BY DEF SecretName
<1>3. \A c \in Certs : \A sp : SecretName(c, sp) \in HomeNames
  BY CertNames, <1>1 DEF SecretName, HomeNames, CANames
<1> QED BY <1>1, <1>2, <1>3, Homes

\* Certificates and secrets are finitely many.
LEMMA Finite == IsFiniteSet(Certs) /\ IsFiniteSet(Secrets)
<1>1. IsFiniteSet({"ca"}) /\ IsFiniteSet({"keystore"}) /\ IsFiniteSet({"caOld"})
      /\ IsFiniteSet({"caNew"}) /\ IsFiniteSet({InstallNamespace})
  BY FS_Singleton
<1>2. IsFiniteSet(Leaves)
  BY FS_Union, ConstantsAssumption DEF Leaves
<1>3. IsFiniteSet(Certs)
  BY <1>1, <1>2, FS_Union DEF Certs
<1>4. IsFiniteSet(CANames)
  <2>1. CANames = {"caOld"} \union {"caNew"}
    BY DEF CANames
  <2> QED BY <1>1, <2>1, FS_Union
<1>5. IsFiniteSet(Remote)
  BY FS_Difference, ConstantsAssumption DEF Remote
<1> DEFINE A == {InstallNamespace} \X (CANames \union Leaves \union {"keystore"})
           B == Remote \X CANames
           C == {<<ns, ns>> : ns \in Remote}
<1>6. IsFiniteSet(A)
  <2>1. IsFiniteSet(CANames \union Leaves)
    BY <1>2, <1>4, FS_Union
  <2>2. IsFiniteSet(CANames \union Leaves \union {"keystore"})
    BY <1>1, <2>1, FS_Union
  <2> QED BY <1>1, <2>2, FS_Product
<1>7. IsFiniteSet(B)
  BY <1>4, <1>5, FS_Product
<1>8. IsFiniteSet(C)
  <2>1. IsFiniteSet(Remote \X Remote)
    BY <1>5, FS_Product
  <2>2. C \in SUBSET (Remote \X Remote)
    OBVIOUS
  <2> QED BY <2>1, <2>2, FS_Subset
<1>9. IsFiniteSet(A \union B)
  BY <1>6, <1>7, FS_Union
<1>10. IsFiniteSet((A \union B) \union C)
  BY <1>8, <1>9, FS_Union
<1> QED BY <1>3, <1>10 DEF Secrets

\* There is always a number that is not in use (Fresh).
LEMMA FreshNumber ==
  ASSUME NEW used, IsFiniteSet(used)
  PROVE  Fresh(used) \in Nat \ {0, 1} /\ Fresh(used) \notin used
<1> DEFINE k == Cardinality(used)
<1>1. k \in Nat
  BY FS_CardinalityType
<1>2. \E n \in 2 .. k + 2 : n \notin used
  <2> SUFFICES ASSUME 2 .. k + 2 \subseteq used PROVE FALSE
    OBVIOUS
  <2>1. Cardinality(2 .. k + 2) = IF 2 > k + 2 THEN 0 ELSE k + 2 - 2 + 1
    BY <1>1, FS_Interval
  <2>2. Cardinality(2 .. k + 2) = k + 1
    BY <1>1, <2>1
  <2>3. (2 .. k + 2) \in SUBSET used
    OBVIOUS
  <2>4. Cardinality(2 .. k + 2) <= k
    BY <2>3, FS_Subset
  <2> QED BY <1>1, <2>2, <2>4
<1>3. Fresh(used) \in 2 .. k + 2 /\ Fresh(used) \notin used
  BY <1>2 DEF Fresh
<1> QED BY <1>1, <1>3

\* The values of a function on a finite set.
LEMMA FiniteRange ==
  ASSUME NEW S, IsFiniteSet(S), NEW f, DOMAIN f = S, f = [x \in S |-> f[x]]
  PROVE  IsFiniteSet({f[x] : x \in S})
<1> DEFINE T == {f[x] : x \in S}
<1>1. f \in [S -> T]
  OBVIOUS
<1>2. \A t \in T : \E s \in S : f[s] = t
  OBVIOUS
<1>3. f \in Surjection(S, T)
  BY <1>1, <1>2 DEF Surjection
<1> QED BY <1>3, FS_Surjection

-----------------------------------------------------------------------------
(* Forms, and where a reconcile is.                                        *)

MaybeCert == CertType \union {None}
MaybeSecret == SecretType \union {None}
IssuerType == [self : BOOLEAN, ca : CANames \union {None}]

\* The forms of all variables.
Shape ==
  /\ cert \in [Certs -> MaybeCert] /\ certSeen \in [Certs -> MaybeCert]
  /\ held \in [Certs -> MaybeCert]
  /\ secret \in [Secrets -> MaybeSecret] /\ secretSeen \in [Secrets -> MaybeSecret]
  /\ issuer \in IssuerType /\ issuerSeen \in IssuerType
  /\ profile \in BOOLEAN /\ queued \in BOOLEAN /\ unready \in BOOLEAN
  /\ condition \in {"Unset", "Waiting", "Ready"} /\ route \in CAType /\ caBytes \in CAType
  /\ pc \in Labels /\ cur \in Certs \union {None} /\ todo \subseteq Certs
  /\ want \in CertSpecs \union {None}
  /\ chain \subseteq Certs \X CertSpecs

\* The secret of a CA has a CA of its name.
SecretsOfCAs ==
  \A n \in CANames : /\ secret[Home(n)] # None => secret[Home(n)].ca[1] = n
                     /\ secretSeen[Home(n)] # None => secretSeen[Home(n)].ca[1] = n

Visits == {"cert", "certSecret"}
Ends   == {"owners", "route"}

\* The reconcile is in the loop over target namespaces.
InNamespaces == pc \in {"caCopy", "agentCopy"} \/ (pc \in Visits /\ cur \in Namespaces)

\* The reconcile has been through a certificate.
Went(c) ==
  \/ pc \in Ends
  \/ /\ c = "ca" /\ pc \notin {"idle", "selfSigned", "waiting"}
     /\ ~(pc \in Visits /\ cur = "ca")
  \/ /\ c \in Components
     /\ \/ pc = "caBytes"
        \/ InNamespaces
        \/ pc \in Visits /\ cur \in Components /\ c \notin todo /\ c # cur
  \/ c \in Namespaces /\ InNamespaces /\ c \notin todo /\ (c = cur => pc = "agentCopy")

\* What the place of a reconcile says about what it holds.
Where ==
  /\ pc = "idle" => held = NoHeld /\ caBytes = NoCA
  /\ pc \in Ends => ~unready
  /\ pc \in Ends \/ InNamespaces => caBytes # NoCA
  /\ pc \in Visits \union {"chainSecret"} => cur \in Certs
  /\ pc \in {"certSecret", "chainSecret"} => want # None
  /\ pc \in Visits /\ cur = "ca" => todo = {}
  /\ pc \in Visits /\ cur \in Components => todo \subseteq Components /\ cur \notin todo
  /\ InNamespaces => cur \in Namespaces /\ todo \subseteq Namespaces /\ cur \notin todo
  /\ pc \in Visits /\ want # None => held[cur] # None
  /\ pc \notin Visits \union {"chainSecret"} => want = None
  /\ pc = "chainCert" => chain # {}
  /\ pc \notin {"chainCert", "chainSecret"} => chain = {}
  /\ \A c \in Certs : Went(c) => held[c] # None

CoreInv == Shape /\ SecretsOfCAs /\ Where

\* There is a number for a new certificate.
LEMMA FreshUID == ASSUME Shape, NEW c \in Certs PROVE Fresh(UIDs(c)) \in Nat \ {0, 1}
<1> DEFINE f == [s \in Secrets |-> secret[s].owner]
           g == [s \in Secrets |-> secretSeen[s].owner]
           F == {f[s] : s \in Secrets}
           G == {g[s] : s \in Secrets}
           H == {cert[c].uid} \union {certSeen[c].uid} \union {held[c].uid}
<1>1. IsFiniteSet(F) /\ IsFiniteSet(G)
  BY Finite, FiniteRange
<1>2. IsFiniteSet({cert[c].uid}) /\ IsFiniteSet({certSeen[c].uid}) /\ IsFiniteSet({held[c].uid})
  BY FS_Singleton
<1>3. IsFiniteSet(H)
  BY <1>2, FS_Union
<1>4. IsFiniteSet(F \union G)
  BY <1>1, FS_Union
<1>5. IsFiniteSet((F \union G) \union H)
  BY <1>3, <1>4, FS_Union
<1>6. UIDs(c) \subseteq (F \union G) \union H
  <2> SUFFICES ASSUME NEW n \in UIDs(c) PROVE n \in (F \union G) \union H
    OBVIOUS
  <2>1. CASE \E x \in {cert, certSeen, held} : n \in {x[c].uid : d \in Present(x) \intersect {c}}
    BY <2>1
  <2>2. CASE \E x \in {secret, secretSeen} :
               n \in {x[s].owner : s \in Present(x) \intersect
                        {Home(m) : m \in IF c = "ca" THEN CANames ELSE {c}}}
    <3>1. DOMAIN secret = Secrets /\ DOMAIN secretSeen = Secrets
      BY DEF Shape
    <3>2. PICK x \in {secret, secretSeen} : \E s \in Present(x) : n = x[s].owner
      BY <2>2
    <3>3. PICK s \in Present(x) : n = x[s].owner
      BY <3>2
    <3>4. s \in Secrets
      BY <3>1, <3>3 DEF Present
    <3> QED BY <3>2, <3>3, <3>4
  <2> DEFINE U(x) == {x[c].uid : d \in Present(x) \intersect {c}}
             V(x) == {x[s].owner : s \in Present(x) \intersect
                        {Home(m) : m \in IF c = "ca" THEN CANames ELSE {c}}}
             A == {U(x) : x \in {cert, certSeen, held}}
             B == {V(x) : x \in {secret, secretSeen}}
  <2>3. UIDs(c) = (UNION A) \union (UNION B)
    BY DEF UIDs
  <2>4. A = {U(cert), U(certSeen), U(held)} /\ B = {V(secret), V(secretSeen)}
    OBVIOUS
  <2> HIDE DEF A, B
  <2>5. n \in UNION A \/ n \in UNION B
    BY <2>3
  <2>6. \/ \E x \in {cert, certSeen, held} : n \in U(x)
        \/ \E x \in {secret, secretSeen} : n \in V(x)
    <3> HIDE DEF U, V
    <3> QED BY <2>4, <2>5
  <2> QED BY <2>1, <2>2, <2>6
<1>7. IsFiniteSet(UIDs(c))
  BY <1>5, <1>6, FS_Subset
<1> QED BY <1>7, FreshNumber

\* The same for contents of secrets: a new one is no content that anything refers to.
LEMMA FreshRev ==
  ASSUME Shape, NEW n PROVE Fresh(Revs(n)) \in Nat \ {0, 1} /\ Fresh(Revs(n)) \notin Revs(n)
<1> DEFINE f == [s \in Secrets |-> secret[s].rev]
           g == [s \in Secrets |-> secretSeen[s].rev]
           h == [c \in Certs |-> cert[c].rev]
           i == [c \in Certs |-> certSeen[c].rev]
           F == {f[s] : s \in Secrets}
           G == {g[s] : s \in Secrets}
           H == {h[c] : c \in Certs}
           I == {i[c] : c \in Certs}
<1>1. IsFiniteSet(F) /\ IsFiniteSet(G) /\ IsFiniteSet(H) /\ IsFiniteSet(I)
  BY Finite, FiniteRange
<1>2. IsFiniteSet(F \union G) /\ IsFiniteSet(H \union I)
  BY <1>1, FS_Union
<1>3. IsFiniteSet((F \union G) \union (H \union I))
  BY <1>2, FS_Union
<1>4. Revs(n) \subseteq (F \union G) \union (H \union I)
  <2> SUFFICES ASSUME NEW r \in Revs(n) PROVE r \in (F \union G) \union (H \union I)
    OBVIOUS
  <2>1. DOMAIN secret = Secrets /\ DOMAIN secretSeen = Secrets /\ DOMAIN cert = Certs
        /\ DOMAIN certSeen = Certs
    BY DEF Shape
  <2>2. CASE \E x \in {secret, secretSeen} :
               r \in {x[s].rev : s \in {t \in Present(x) : t[2] = n}}
    <3>1. PICK x \in {secret, secretSeen} : \E s \in Present(x) : r = x[s].rev
      BY <2>2
    <3>2. PICK s \in Present(x) : r = x[s].rev
      BY <3>1
    <3> QED BY <2>1, <3>1, <3>2 DEF Present
  <2>3. CASE \E x \in {cert, certSeen} :
               r \in {x[c].rev : c \in {d \in Present(x) : SecretName(d, x[d].spec) = n}}
    <3>1. PICK x \in {cert, certSeen} : \E c \in Present(x) : r = x[c].rev
      BY <2>3
    <3>2. PICK c \in Present(x) : r = x[c].rev
      BY <3>1
    <3> QED BY <2>1, <3>1, <3>2 DEF Present
  <2> DEFINE U(x) == {x[s].rev : s \in {t \in Present(x) : t[2] = n}}
             V(x) == {x[c].rev : c \in {d \in Present(x) : SecretName(d, x[d].spec) = n}}
             A == {U(x) : x \in {secret, secretSeen}}
             B == {V(x) : x \in {cert, certSeen}}
  <2>4. Revs(n) = (UNION A) \union (UNION B)
    BY DEF Revs
  <2>5. A = {U(secret), U(secretSeen)} /\ B = {V(cert), V(certSeen)}
    OBVIOUS
  <2> HIDE DEF A, B
  <2>6. r \in UNION A \/ r \in UNION B
    BY <2>4
  <2>7. (\E x \in {secret, secretSeen} : r \in U(x)) \/ (\E x \in {cert, certSeen} : r \in V(x))
    <3> HIDE DEF U, V
    <3> QED BY <2>5, <2>6
  <2> QED BY <2>2, <2>3, <2>7
<1>5. IsFiniteSet(Revs(n))
  BY <1>3, <1>4, FS_Subset
<1> QED BY <1>5, FreshNumber

\* The same for CAs.
LEMMA FreshCA == ASSUME Shape PROVE Fresh(CAs) \in Nat \ {0, 1}
<1> DEFINE f == [s \in Secrets |-> secret[s].ca[2]]
           g == [s \in Secrets |-> secretSeen[s].ca[2]]
           F == {f[s] : s \in Secrets}
           G == {g[s] : s \in Secrets}
           H == {caBytes[2]} \union {route[2]}
<1>1. IsFiniteSet(F) /\ IsFiniteSet(G)
  BY Finite, FiniteRange
<1>0. IsFiniteSet({caBytes[2]}) /\ IsFiniteSet({route[2]})
  BY FS_Singleton
<1>2. IsFiniteSet(F \union G) /\ IsFiniteSet(H)
  BY <1>0, <1>1, FS_Union
<1>3. IsFiniteSet((F \union G) \union H)
  BY <1>2, FS_Union
<1>4. CAs \subseteq (F \union G) \union H
  <2> SUFFICES ASSUME NEW r \in CAs PROVE r \in (F \union G) \union H
    OBVIOUS
  <2>1. DOMAIN secret = Secrets /\ DOMAIN secretSeen = Secrets
    BY DEF Shape
  <2>2. CASE \E x \in {secret, secretSeen} : r \in {x[s].ca[2] : s \in Present(x)}
    <3>1. PICK x \in {secret, secretSeen} : \E s \in Present(x) : r = x[s].ca[2]
      BY <2>2
    <3>2. PICK s \in Present(x) : r = x[s].ca[2]
      BY <3>1
    <3> QED BY <2>1, <3>1, <3>2 DEF Present
  <2> QED BY <2>2 DEF CAs
<1>5. IsFiniteSet(CAs)
  BY <1>3, <1>4, FS_Subset
<1> QED BY <1>5, FreshNumber

-----------------------------------------------------------------------------
(* CoreInv is an invariant.                                                *)

\* None is no certificate and no secret.
LEMMA Objects ==
  /\ \A x \in MaybeCert : x # None <=> x \in CertType
  /\ \A x \in MaybeSecret : x # None <=> x \in SecretType
BY NamesAssumption DEF MaybeCert, MaybeSecret

\* The end of a reconcile leaves nothing in its hands.
LEMMA ForgetCore ==
  ASSUME CoreInv, Forget
  PROVE  /\ Where'
         /\ held' \in [Certs -> MaybeCert] /\ unready' \in BOOLEAN /\ caBytes' \in CAType
         /\ pc' \in Labels /\ cur' \in Certs \union {None} /\ todo' \subseteq Certs
         /\ want' \in CertSpecs \union {None} /\ chain' \subseteq Certs \X CertSpecs
<1>1. held' = NoHeld /\ NoHeld \in [Certs -> MaybeCert]
  BY DEF Forget, NoHeld, MaybeCert
<1>2. Where'
  BY <1>1 DEF Forget, Where, Went, InNamespaces, Visits, Ends
<1> QED BY <1>1, <1>2 DEF Forget, Labels, CAType, NoCA

\* An error.
LEMMA FailCore == ASSUME CoreInv, Fail PROVE CoreInv'
<1>1. Forget /\ queued' = TRUE /\ UNCHANGED <<serverVars, cacheVars, profile, crVars>>
  BY DEF Fail, Return, CoreInv, Shape
<1> QED BY <1>1, ForgetCore DEF CoreInv, Shape, SecretsOfCAs, serverVars, cacheVars, crVars

\* A secret is written or deleted.
LEMMA PutCore ==
  ASSUME CoreInv, NEW s \in Secrets, NEW x \in MaybeSecret, UNCHANGED secretSeen,
         secret' = [secret EXCEPT ![s] = x],
         \A n \in CANames : x # None /\ s = Home(n) => x.ca[1] = n
  PROVE  secret' \in [Secrets -> MaybeSecret] /\ SecretsOfCAs'
<1>1. secret' \in [Secrets -> MaybeSecret]
  BY DEF CoreInv, Shape
<1>2. ASSUME NEW n \in CANames PROVE secret'[Home(n)] # None => secret'[Home(n)].ca[1] = n
  <2>1. Home(n) \in Secrets
    BY Homes DEF HomeNames
  <2>2. secret'[Home(n)] = IF Home(n) = s THEN x ELSE secret[Home(n)]
    BY <2>1 DEF CoreInv, Shape
  <2> QED BY <2>2 DEF CoreInv, SecretsOfCAs
<1> QED BY <1>1, <1>2 DEF CoreInv, SecretsOfCAs

\* A reconcile starts.
LEMMA ReconcileCore == ASSUME CoreInv, Reconcile PROVE CoreInv'
<1>1. Shape' /\ SecretsOfCAs'
  BY DEF CoreInv, Shape, SecretsOfCAs, Reconcile, serverVars, cacheVars, crVars, readVars,
     Labels
<1>2. Where'
  BY DEF CoreInv, Where, Went, InNamespaces, Visits, Ends, Reconcile, readVars
<1> QED BY <1>1, <1>2 DEF CoreInv

\* The self-signed issuer is ensured.
LEMMA SelfSignedCore == ASSUME CoreInv, CreateSelfSignedIssuer PROVE CoreInv'
<1>1. CASE pc = "selfSigned" /\ ~issuerSeen.self /\ issuer.self /\ Fail
  BY <1>1, FailCore
<1>2. CASE /\ Step("selfSigned")
           /\ issuer' = [issuer EXCEPT !.self = TRUE]
           /\ VisitCerts({"ca"}, "issuer")
           /\ UNCHANGED <<cert, secret, queued, want, held, readVars>>
  <2>1. pc = "selfSigned" /\ pc' = "cert" /\ cur' = "ca" /\ todo' = {}
    BY <1>2 DEF Step, VisitCerts
  <2>2. issuer' \in IssuerType
    BY <1>2 DEF CoreInv, Shape, IssuerType
  <2>3. Shape' /\ SecretsOfCAs'
    BY <1>2, <2>1, <2>2, CertNames
    DEF CoreInv, Shape, SecretsOfCAs, Step, cacheVars, crVars, readVars, Labels
  <2>4. Where'
    BY <1>2, <2>1, CertNames DEF CoreInv, Where, Went, InNamespaces, Visits, Ends, readVars
  <2> QED BY <2>3, <2>4 DEF CoreInv
<1> QED BY <1>1, <1>2 DEF CreateSelfSignedIssuer

\* What follows the visit of a certificate.
LEMMA AfterVisit ==
  ASSUME CoreInv, pc = "cert", AfterCert(cur), want' = None, held'[cur] # None,
         held' \in [Certs -> MaybeCert], \A c \in Certs \ {cur} : held'[c] = held[c],
         UNCHANGED readVars
  PROVE  /\ Where'
         /\ pc' \in Labels /\ cur' \in Certs \union {None} /\ todo' \subseteq Certs
         /\ \A c \in Certs : Went(c)' => Went(c) \/ c = cur
<1>1. cur \in Certs
  BY DEF CoreInv, Where, Visits
<1>2. CASE cur = "ca"
  <2>1. pc' = "issuer" /\ cur' = None /\ todo' = {}
    BY <1>2, CertNames DEF AfterCert, VisitCerts
  <2>2. Where'
    BY <1>2, <2>1 DEF CoreInv, Where, Went, InNamespaces, Visits, Ends, readVars
  <2> QED BY <1>2, <2>1, <2>2 DEF Labels, Went, InNamespaces, Visits, Ends
<1>3. CASE cur \in Components
  <2>1. VisitCerts(todo, "caBytes") /\ todo \subseteq Components /\ cur \notin todo
    BY <1>3, CertNames DEF AfterCert, CoreInv, Where, Visits
  <2>2. CASE todo = {}
    <3>1. pc' = "caBytes" /\ cur' = None /\ todo' = {}
      BY <2>1, <2>2 DEF VisitCerts
    <3>2. \A c \in Certs : Went(c)' => Went(c) \/ c = cur
      BY <1>3, <2>2, <3>1, CertNames DEF Went, InNamespaces, Visits, Ends
    <3>3. Where'
      BY <1>3, <3>1, <3>2 DEF CoreInv, Where, InNamespaces, Visits, Ends, readVars
    <3> QED BY <3>1, <3>2, <3>3 DEF Labels
  <2>3. CASE todo # {}
    <3>1. pc' = "cert" /\ cur' \in todo /\ todo' = todo \ {cur'}
      BY <2>1, <2>3 DEF VisitCerts
    <3>2. \A c \in Certs : Went(c)' => Went(c) \/ c = cur
      BY <1>3, <2>1, <3>1, CertNames DEF Went, InNamespaces, Visits, Ends
    <3>3. Where'
      BY <1>3, <2>1, <3>1, <3>2, CertNames DEF CoreInv, Where, InNamespaces, Visits, Ends,
         readVars
    <3> QED BY <2>1, <3>1, <3>2, <3>3, CertNames DEF Labels
  <2> QED BY <2>2, <2>3
<1>4. CASE cur \in Namespaces
  <2>1. pc' = "agentCopy" /\ cur' = cur /\ todo' = todo
    BY <1>4, CertNames DEF AfterCert
  <2>2. \A c \in Certs : Went(c)' => Went(c) \/ c = cur
    BY <1>4, <2>1, CertNames DEF Went, InNamespaces, Visits, Ends
  <2>3. Where'
    BY <1>4, <2>1, <2>2, CertNames DEF CoreInv, Where, InNamespaces, Visits, Ends, readVars
  <2> QED BY <1>1, <2>1, <2>2, <2>3 DEF Labels, CoreInv, Shape
<1> QED BY <1>1, <1>2, <1>3, <1>4, CertNames

\* A certificate is kept.
LEMMA KeepCore == ASSUME CoreInv, KeepCertificate PROVE CoreInv'
<1>1. pc = "cert" /\ cur \in Certs /\ certSeen[cur] \in MaybeCert /\ certSeen[cur] # None
  BY DEF KeepCertificate, Step, CoreInv, Where, Visits, Shape
<1>2. /\ held' \in [Certs -> MaybeCert] /\ held'[cur] # None
      /\ \A c \in Certs \ {cur} : held'[c] = held[c]
  BY <1>1 DEF KeepCertificate, Hold, CoreInv, Shape, Where, Visits
<1>3. AfterCert(cur) /\ want' = None /\ UNCHANGED <<serverVars, queued, readVars>>
      /\ UNCHANGED <<cacheVars, profile, crVars>>
  BY DEF KeepCertificate, Step
<1>4. /\ Where' /\ pc' \in Labels /\ cur' \in Certs \union {None} /\ todo' \subseteq Certs
  BY <1>1, <1>2, <1>3, AfterVisit
<1> QED BY <1>2, <1>3, <1>4
        DEF CoreInv, Shape, SecretsOfCAs, serverVars, cacheVars, crVars, readVars

\* A new certificate.
LEMMA NewCertForm ==
  ASSUME Shape, NEW c \in Certs, NEW sp \in CertSpecs PROVE NewCert(c, sp) \in CertType
<1>1. Fresh(UIDs(c)) \in Nat \ {0, 1}
  BY FreshUID
<1> QED BY <1>1 DEF NewCert, CertType

\* The spec that is asked for.
LEMMA WantedForm == ASSUME Shape, NEW c PROVE Wanted(c) \in CertSpecs
BY DEF Shape, Wanted, Desired, CertSpecs

\* A certificate is created, or the cache is behind.
LEMMA CreateCore == ASSUME CoreInv, CreateCertificate PROVE CoreInv'
<1>1. CASE Fail
  BY <1>1, FailCore
<1>2. CASE /\ Step("cert")
           /\ certSeen[cur] = None /\ cert[cur] = None
           /\ cert' = [cert EXCEPT ![cur] = NewCert(cur, Wanted(cur))]
           /\ Hold(cur, cert'[cur]) /\ want' = None
           /\ AfterCert(cur)
           /\ UNCHANGED <<issuer, secret, queued, readVars>>
  <2>1. pc = "cert" /\ cur \in Certs
    BY <1>2 DEF Step, CoreInv, Where, Visits
  <2> DEFINE x == NewCert(cur, Wanted(cur))
  <2>2. x \in MaybeCert /\ x # None
    BY <2>1, NewCertForm, WantedForm, NamesAssumption DEF CoreInv, MaybeCert
  <2> HIDE DEF x
  <2>3. cert' = [cert EXCEPT ![cur] = x] /\ Hold(cur, cert'[cur])
    BY <1>2 DEF x
  <2>4. cert' \in [Certs -> MaybeCert] /\ cert'[cur] = x
    BY <2>1, <2>2, <2>3 DEF CoreInv, Shape
  <2>5. /\ held' \in [Certs -> MaybeCert] /\ held'[cur] # None
        /\ \A c \in Certs \ {cur} : held'[c] = held[c]
    BY <2>1, <2>2, <2>3, <2>4 DEF Hold, CoreInv, Shape, Where, Visits
  <2>6. /\ Where' /\ pc' \in Labels /\ cur' \in Certs \union {None} /\ todo' \subseteq Certs
    BY <1>2, <2>1, <2>5, AfterVisit
  <2>7. want' = None /\ UNCHANGED <<issuer, secret, queued, readVars, cacheVars, profile, crVars>>
    BY <1>2 DEF Step
  <2> QED BY <2>4, <2>5, <2>6, <2>7 DEF CoreInv, Shape, SecretsOfCAs, cacheVars, crVars,
          readVars
<1> QED BY <1>1, <1>2 DEF CreateCertificate

\* A certificate with another spec is deleted.
LEMMA RecreateCore == ASSUME CoreInv, RecreateCertificate PROVE CoreInv'
<1>1. pc = "cert" /\ cur \in Certs /\ certSeen[cur] \in MaybeCert /\ certSeen[cur] # None
  BY DEF RecreateCertificate, Step, CoreInv, Where, Visits, Shape
<1>2. /\ held' \in [Certs -> MaybeCert] /\ held'[cur] # None
      /\ \A c \in Certs \ {cur} : held'[c] = held[c]
  BY <1>1 DEF RecreateCertificate, Hold, CoreInv, Shape, Where, Visits
<1>3. cert' \in [Certs -> MaybeCert]
  BY <1>1 DEF RecreateCertificate, CoreInv, Shape, MaybeCert
<1>4. want' \in CertSpecs /\ want' # None
  BY WantedForm, NamesAssumption DEF RecreateCertificate, CoreInv
<1>5. pc' = "certSecret" /\ UNCHANGED <<issuer, secret, queued, cur, todo, readVars>>
      /\ UNCHANGED <<cacheVars, profile, crVars>>
  BY DEF RecreateCertificate, Step
<1>6. \A c \in Certs : Went(c)' => Went(c) /\ c # cur
  BY <1>1, <1>5, CertNames DEF Went, InNamespaces, Visits, Ends
<1>7. Where'
  BY <1>1, <1>2, <1>4, <1>5, <1>6 DEF CoreInv, Where, InNamespaces, Visits, Ends, readVars
<1> QED BY <1>2, <1>3, <1>4, <1>5, <1>7
        DEF CoreInv, Shape, SecretsOfCAs, cacheVars, crVars, readVars, Labels

\* Its secret is deleted.
LEMMA DeleteSecretCore == ASSUME CoreInv, DeleteCertSecret PROVE CoreInv'
<1>1. pc = "certSecret" /\ cur \in Certs
  BY DEF DeleteCertSecret, Step, CoreInv, Where, Visits
<1>2. Home(SecretName(cur, want)) \in Secrets /\ None \in MaybeSecret
  BY <1>1, SecretNames DEF MaybeSecret
<1>3. pc' = "cert" /\ UNCHANGED <<cert, issuer, queued, cur, todo, want, held, readVars>>
      /\ UNCHANGED <<cacheVars, profile, crVars>>
      /\ secret' = [secret EXCEPT ![Home(SecretName(cur, want))] = None]
  BY DEF DeleteCertSecret, Step
<1>4. secret' \in [Secrets -> MaybeSecret] /\ SecretsOfCAs'
  BY <1>2, <1>3, PutCore DEF cacheVars
<1>5. \A c \in Certs : Went(c)' => Went(c)
  BY <1>1, <1>3 DEF Went, InNamespaces, Visits, Ends
<1>6. Where'
  BY <1>1, <1>3, <1>5 DEF CoreInv, Where, InNamespaces, Visits, Ends, readVars
<1> QED BY <1>3, <1>4, <1>6 DEF CoreInv, Shape, cacheVars, crVars, readVars, Labels

\* The CA issuer is read.
LEMMA ReadIssuerCore == ASSUME CoreInv, ReadCAIssuer PROVE CoreInv'
<1>1. pc = "issuer" /\ UNCHANGED <<serverVars, queued, cur, todo, want, held, caBytes, unready>>
      /\ UNCHANGED <<cacheVars, profile, crVars>>
      /\ pc' \in {"issuerUpdate", "chainCert"} /\ (pc' = "chainCert" <=> chain' # {})
  BY DEF ReadCAIssuer, Step
<1>2. chain' \subseteq Certs \X CertSpecs
  <2>1. \A c \in Present(certSeen) : c \in Certs /\ certSeen[c].spec \in CertSpecs
    BY Objects DEF Present, CoreInv, Shape, CertType
  <2> QED BY <2>1 DEF ReadCAIssuer
<1>3. \A c \in Certs : Went(c)' => Went(c)
  BY <1>1 DEF Went, InNamespaces, Visits, Ends
<1>4. Where'
  BY <1>1, <1>3 DEF CoreInv, Where, InNamespaces, Visits, Ends
<1> QED BY <1>1, <1>2, <1>4
        DEF CoreInv, Shape, SecretsOfCAs, serverVars, cacheVars, crVars, Labels

\* A certificate of the old chain is deleted.
LEMMA ChainCertCore == ASSUME CoreInv, DeleteChainCert PROVE CoreInv'
<1>1. pc = "chainCert" /\ UNCHANGED <<cacheVars, profile, crVars>>
  BY DEF DeleteChainCert, Step
<1>3. PICK x \in chain :
        /\ cert' = [cert EXCEPT ![x[1]] = None] /\ cur' = x[1] /\ want' = x[2]
        /\ chain' = chain \ {x} /\ pc' = "chainSecret"
        /\ UNCHANGED <<issuer, secret, queued, todo, held, heldIssuer, caBytes, unready>>
  BY DEF DeleteChainCert
<1>2. x[1] \in Certs /\ x[2] \in CertSpecs
  BY DEF CoreInv, Shape
<1>4. Shape' /\ SecretsOfCAs'
  BY <1>1, <1>2, <1>3 DEF CoreInv, Shape, SecretsOfCAs, cacheVars, crVars, Labels, MaybeCert
<1>5. \A c \in Certs : Went(c)' => Went(c)
  BY <1>1, <1>3 DEF Went, InNamespaces, Visits, Ends
<1>6. want' # None
  BY <1>2, <1>3, NamesAssumption
<1>7. Where'
  BY <1>1, <1>2, <1>3, <1>5, <1>6 DEF CoreInv, Where, InNamespaces, Visits, Ends
<1> QED BY <1>4, <1>7 DEF CoreInv

\* Its secret is deleted.
LEMMA ChainSecretCore == ASSUME CoreInv, DeleteChainSecret PROVE CoreInv'
<1>1. pc = "chainSecret" /\ cur \in Certs
  BY DEF DeleteChainSecret, Step, CoreInv, Where
<1>2. Home(SecretName(cur, want)) \in Secrets /\ None \in MaybeSecret
  BY <1>1, SecretNames DEF MaybeSecret
<1>3. /\ pc' \in {"issuerUpdate", "chainCert"} /\ (pc' = "chainCert" <=> chain' # {})
      /\ cur' = None /\ want' = None
      /\ UNCHANGED <<cert, issuer, queued, todo, held, readVars>>
      /\ UNCHANGED <<cacheVars, profile, crVars>>
      /\ secret' = [secret EXCEPT ![Home(SecretName(cur, want))] = None]
  BY DEF DeleteChainSecret, Step, readVars
<1>4. secret' \in [Secrets -> MaybeSecret] /\ SecretsOfCAs'
  BY <1>2, <1>3, PutCore DEF cacheVars
<1>5. \A c \in Certs : Went(c)' => Went(c)
  BY <1>1, <1>3 DEF Went, InNamespaces, Visits, Ends
<1>6. Where'
  BY <1>1, <1>3, <1>5 DEF CoreInv, Where, InNamespaces, Visits, Ends, readVars
<1> QED BY <1>3, <1>4, <1>6 DEF CoreInv, Shape, cacheVars, crVars, readVars, Labels

\* The CA issuer is written.
LEMMA UpdateIssuerCore == ASSUME CoreInv, UpdateCAIssuer PROVE CoreInv'
<1>1. CASE Fail
  BY <1>1, FailCore
<1>2. CASE /\ Step("issuerUpdate")
           /\ issuer' = [issuer EXCEPT !.ca = "caNew"]
           /\ pc' = "keystore"
           /\ UNCHANGED <<cert, secret, queued, cur, todo, want, held, chain, caBytes, unready>>
  <2>1. pc = "issuerUpdate" /\ issuer' \in IssuerType
    BY <1>2 DEF Step, CoreInv, Shape, IssuerType, CANames
  <2>2. \A c \in Certs : Went(c)' => Went(c)
    BY <1>2, <2>1 DEF Went, InNamespaces, Visits, Ends
  <2>3. Where'
    BY <1>2, <2>1, <2>2 DEF CoreInv, Where, InNamespaces, Visits, Ends
  <2> QED BY <1>2, <2>1, <2>3 DEF CoreInv, Shape, SecretsOfCAs, Step, cacheVars, crVars, Labels
<1> QED BY <1>1, <1>2 DEF UpdateCAIssuer

\* The keystore's password is ensured.
LEMMA KeystoreCore == ASSUME CoreInv, CreateKeystoreSecret PROVE CoreInv'
<1>1. CASE Fail
  BY <1>1, FailCore
<1>2. CASE /\ Step("keystore")
           /\ secret' = IF secretSeen[Home("keystore")] # None THEN secret
                        ELSE [secret EXCEPT ![Home("keystore")] =
                                [owner |-> TheCR, spec |-> "new", ca |-> NoCA,
                                 rev |-> Fresh(Revs("keystore"))]]
           /\ VisitCerts(Components, "caBytes")
           /\ UNCHANGED <<cert, issuer, queued, want, held, readVars>>
  <2> DEFINE x == [owner |-> TheCR, spec |-> "new", ca |-> NoCA, rev |-> Fresh(Revs("keystore"))]
  <2>1. pc = "keystore" /\ UNCHANGED <<cacheVars, profile, crVars>>
    BY <1>2 DEF Step
  <2>2. x \in MaybeSecret
    <3>1. Fresh(Revs("keystore")) \in Nat
      BY FreshRev DEF CoreInv
    <3> QED BY <3>1 DEF MaybeSecret, SecretType, TheCR, CertSpecs, CAType, NoCA
  <2>3. Home("keystore") \in Secrets /\ \A n \in CANames : Home("keystore") # Home(n)
    BY Homes DEF HomeNames, CANames
  <2>4. secret' = secret \/ secret' = [secret EXCEPT ![Home("keystore")] = x]
    BY <1>2
  <2> HIDE DEF x
  <2>5. secret' \in [Secrets -> MaybeSecret] /\ SecretsOfCAs'
    <3>1. CASE secret' = secret
      BY <2>1, <3>1 DEF CoreInv, Shape, SecretsOfCAs, cacheVars
    <3>2. CASE secret' = [secret EXCEPT ![Home("keystore")] = x]
      BY <2>1, <2>2, <2>3, <3>2, PutCore DEF cacheVars
    <3> QED BY <2>4, <3>1, <3>2
  <2>6. \/ pc' = "caBytes" /\ cur' = None /\ todo' = {} /\ Components = {}
        \/ pc' = "cert" /\ cur' \in Components /\ todo' = Components \ {cur'}
    BY <1>2 DEF VisitCerts
  <2>7. \A c \in Certs : Went(c)' => Went(c)
    BY <2>1, <2>6, CertNames DEF Went, InNamespaces, Visits, Ends
  <2>8. Where'
    BY <1>2, <2>1, <2>6, <2>7, CertNames DEF CoreInv, Where, InNamespaces, Visits, Ends,
       readVars
  <2>9. pc' \in Labels /\ cur' \in Certs \union {None} /\ todo' \subseteq Certs
    BY <2>6, CertNames DEF Labels
  <2> QED BY <1>2, <2>1, <2>5, <2>8, <2>9 DEF CoreInv, Shape, cacheVars, crVars, readVars
<1> QED BY <1>1, <1>2 DEF CreateKeystoreSecret

\* The loop over target namespaces goes on.
LEMMA NamespacesVisited ==
  ASSUME CoreInv, NEW S \in SUBSET Namespaces, VisitNamespaces(S),
         (pc = "caBytes" /\ S = Namespaces) \/ (pc = "agentCopy" /\ S = todo),
         caBytes' \in CAType \ {NoCA}, unready' \in BOOLEAN, UNCHANGED <<want, held, chain>>
  PROVE  /\ Where'
         /\ pc' \in Labels /\ cur' \in Certs \union {None} /\ todo' \subseteq Certs
         /\ \A c \in Certs : Went(c)' => Went(c)
<1>1. CASE S = {}
  <2>1. cur' = None /\ todo' = Certs /\ pc' = IF unready' THEN "waiting" ELSE "owners"
    BY <1>1 DEF VisitNamespaces
  <2>2. \A c \in Certs : Went(c)' => Went(c)
    BY <1>1, <2>1, CertNames DEF Went, InNamespaces, Visits, Ends
  <2>3. Where'
    BY <2>1, <2>2 DEF CoreInv, Where, InNamespaces, Visits, Ends
  <2> QED BY <2>1, <2>2, <2>3 DEF Labels
<1>2. CASE S # {}
  <2>1. pc' = "caCopy" /\ cur' \in S /\ todo' = S \ {cur'}
    BY <1>2 DEF VisitNamespaces
  <2>2. \A c \in Certs : Went(c)' => Went(c)
    <3>1. CASE pc = "caBytes" /\ S = Namespaces
      BY <2>1, <3>1, CertNames DEF Went, InNamespaces, Visits, Ends
    <3>2. CASE pc = "agentCopy" /\ S = todo
      BY <2>1, <3>2, CertNames DEF Went, InNamespaces, Visits, Ends
    <3> QED BY <3>1, <3>2
  <2>3. Where'
    BY <2>1, <2>2, CertNames DEF CoreInv, Where, InNamespaces, Visits, Ends
  <2> QED BY <2>1, <2>2, <2>3, CertNames DEF Labels
<1> QED BY <1>1, <1>2

\* The cached secret of a certificate in hand.
LEMMA CertSecretForm ==
  ASSUME CoreInv, NEW c \in Certs
  PROVE  CertSecret(c) \in MaybeSecret
BY SecretNames DEF CertSecret, CoreInv, Shape

\* The CA is read.
LEMMA ReadCACore == ASSUME CoreInv, ReadCA PROVE CoreInv'
<1>1. CASE Fail
  BY <1>1, FailCore
<1>2. CASE /\ Step("caBytes")
           /\ CertSecret("ca") # None
           /\ caBytes' = CertSecret("ca").ca
           /\ UNCHANGED unready /\ VisitNamespaces(Namespaces)
           /\ UNCHANGED <<serverVars, queued, want, held, heldIssuer, chain>>
  <2>1. pc = "caBytes" /\ UNCHANGED <<cacheVars, profile, crVars>>
    BY <1>2 DEF Step
  <2>2. caBytes' \in CAType \ {NoCA}
    <3>1. CertSecret("ca") \in SecretType
      BY <1>2, CertNames, CertSecretForm, Objects
    <3>2. SecretName("ca", held["ca"].spec) \in CANames
      BY DEF SecretName, CANames
    <3>3. CertSecret("ca").ca[1] \in CANames
      BY <1>2, <3>2 DEF CertSecret, CoreInv, SecretsOfCAs
    <3>4. CertSecret("ca").ca # NoCA
      BY <3>3, NamesAssumption DEF NoCA
    <3> QED BY <1>2, <3>1, <3>4 DEF SecretType
  <2>3. /\ Where' /\ pc' \in Labels /\ cur' \in Certs \union {None} /\ todo' \subseteq Certs
    BY <1>2, <2>1, <2>2, NamespacesVisited DEF CoreInv, Shape
  <2> QED BY <1>2, <2>1, <2>2, <2>3
          DEF CoreInv, Shape, SecretsOfCAs, serverVars, cacheVars, crVars
<1>3. CASE /\ Step("caBytes") /\ pc' = "waiting"
           /\ UNCHANGED <<serverVars, queued, cur, todo, want, held, readVars>>
  <2>1. pc = "caBytes" /\ UNCHANGED <<cacheVars, profile, crVars>>
    BY <1>3 DEF Step
  <2>2. Where'
    BY <1>3, <2>1 DEF CoreInv, Where, Went, InNamespaces, Visits, Ends, readVars
  <2> QED BY <1>3, <2>1, <2>2
          DEF CoreInv, Shape, SecretsOfCAs, serverVars, cacheVars, crVars, readVars, Labels
<1> QED BY <1>1, <1>2, <1>3 DEF ReadCA

\* A copy in a target namespace.
LEMMA CopyCore ==
  ASSUME CoreInv, NEW ns \in Remote, NEW n \in CANames \union {ns}, NEW x \in SecretType,
         CopyTo(<<ns, n>>, x), UNCHANGED secretSeen
  PROVE  secret' \in [Secrets -> MaybeSecret] /\ SecretsOfCAs'
<1>1. <<ns, n>> \in Secrets /\ \A m : <<ns, n>> # Home(m)
  BY Copies
<1>2. CASE secret' = secret
  BY <1>2 DEF CoreInv, Shape, SecretsOfCAs
<1>3. CASE secret' = [secret EXCEPT ![<<ns, n>>] = x]
  <2>1. x \in MaybeSecret
    BY DEF MaybeSecret
  <2> QED BY <1>1, <1>3, <2>1, PutCore
<1> QED BY <1>2, <1>3 DEF CopyTo

\* The CA is copied.
LEMMA CopyCACore == ASSUME CoreInv, CopyCASecret PROVE CoreInv'
<1> DEFINE n == SecretName("ca", held["ca"].spec)
<1>1. CASE Fail
  BY <1>1, FailCore
<1>2. CASE /\ Step("caCopy")
           /\ IF cur = InstallNamespace THEN UNCHANGED secret ELSE CopyTo(<<cur, n>>, CACopy)
           /\ pc' = "cert"
           /\ UNCHANGED <<cert, issuer, queued, cur, todo, want, held, readVars>>
  <2>1. pc = "caCopy" /\ UNCHANGED <<cacheVars, profile, crVars>> /\ cur \in Namespaces
    BY <1>2 DEF Step, CoreInv, Where, InNamespaces
  <2>2. n \in CANames
    BY DEF SecretName, CANames
  <2>3. CACopy \in SecretType
    BY DEF CACopy, SecretType, Nobody, CoreInv, Shape
  <2>4. secret' \in [Secrets -> MaybeSecret] /\ SecretsOfCAs'
    <3>1. CASE cur = InstallNamespace
      BY <1>2, <2>1, <3>1 DEF CoreInv, Shape, SecretsOfCAs, cacheVars
    <3>2. CASE cur # InstallNamespace
      <4>1. cur \in Remote
        BY <2>1, <3>2 DEF Remote
      <4> HIDE DEF n
      <4> QED BY <1>2, <2>1, <2>2, <2>3, <3>2, <4>1, CopyCore DEF cacheVars
    <3> QED BY <3>1, <3>2
  <2>5. \A c \in Certs : Went(c)' => Went(c)
    BY <1>2, <2>1, CertNames DEF Went, InNamespaces, Visits, Ends
  <2>6. Where'
    BY <1>2, <2>1, <2>5, CertNames DEF CoreInv, Where, InNamespaces, Visits, Ends, readVars
  <2> QED BY <1>2, <2>1, <2>4, <2>6 DEF CoreInv, Shape, cacheVars, crVars, readVars, Labels
<1> QED BY <1>1, <1>2 DEF CopyCASecret

\* The agent's secret is copied.
LEMMA CopyAgentCore == ASSUME CoreInv, CopyAgentSecret PROVE CoreInv'
<1> DEFINE copy == [CertSecret(cur) EXCEPT !.owner = Nobody]
<1>1. CASE Fail
  BY <1>1, FailCore
<1>2. CASE /\ Step("agentCopy")
           /\ IF cur = InstallNamespace THEN UNCHANGED <<secret, unready>>
              ELSE IF ~held[cur].ready THEN unready' = TRUE /\ UNCHANGED secret
              ELSE CertSecret(cur) # None /\ CopyTo(<<cur, cur>>, copy) /\ UNCHANGED unready
           /\ VisitNamespaces(todo)
           /\ UNCHANGED <<cert, issuer, queued, want, held, heldIssuer, chain, caBytes>>
  <2>1. pc = "agentCopy" /\ UNCHANGED <<cacheVars, profile, crVars>> /\ cur \in Namespaces
        /\ todo \in SUBSET Namespaces /\ caBytes \in CAType \ {NoCA}
    BY <1>2 DEF Step, CoreInv, Where, InNamespaces, Shape
  <2>2. unready' \in BOOLEAN
    BY <1>2 DEF CoreInv, Shape
  <2>3. secret' \in [Secrets -> MaybeSecret] /\ SecretsOfCAs'
    <3>1. CASE UNCHANGED secret
      BY <2>1, <3>1 DEF CoreInv, Shape, SecretsOfCAs, cacheVars
    <3>2. CASE cur # InstallNamespace /\ CertSecret(cur) # None /\ CopyTo(<<cur, cur>>, copy)
      <4>1. cur \in Remote /\ cur \in Certs
        BY <2>1, <3>2, CertNames DEF Remote
      <4>2. CertSecret(cur) \in SecretType
        BY <3>2, <4>1, CertSecretForm, Objects
      <4>3. copy \in SecretType
        BY <4>2 DEF SecretType, Nobody
      <4> HIDE DEF copy
      <4> QED BY <2>1, <3>2, <4>1, <4>3, CopyCore DEF cacheVars
    <3> QED BY <1>2, <3>1, <3>2
  <2>4. /\ Where' /\ pc' \in Labels /\ cur' \in Certs \union {None} /\ todo' \subseteq Certs
    BY <1>2, <2>1, <2>2, NamespacesVisited
  <2> QED BY <1>2, <2>1, <2>2, <2>3, <2>4 DEF CoreInv, Shape, cacheVars, crVars
<1> QED BY <1>1, <1>2 DEF CopyAgentSecret

\* What is in the way of a step of setCertSecretOwner.
LEMMA NextOwnerForm ==
  ASSUME CoreInv, pc = "owners", todo # {}
  PROVE  /\ NextOwner \in todo /\ NextOwner \in Certs
         /\ held[NextOwner] \in CertType
         /\ Home(SecretName(NextOwner, held[NextOwner].spec)) \in Secrets
<1>1. NextOwner \in todo /\ NextOwner \in Certs
  BY DEF NextOwner, CoreInv, Shape
<1>2. held[NextOwner] # None /\ held[NextOwner] \in MaybeCert
  BY <1>1 DEF CoreInv, Where, Went, Ends, Shape
<1> QED BY <1>1, <1>2, Objects, SecretNames

\* A secret gets another owner.
LEMMA OwnedForm ==
  ASSUME CoreInv, NEW c \in Certs, held[c] \in CertType, ServerSecret(c) # None, Owned(c)
  PROVE  LET s == Home(SecretName(c, held[c].spec))
         IN  /\ s \in Secrets /\ secret[s] \in SecretType
             /\ secret' = [secret EXCEPT ![s] = [secret[s] EXCEPT !.owner = held[c].uid]]
             /\ [secret[s] EXCEPT !.owner = held[c].uid] \in SecretType
<1> DEFINE s == Home(SecretName(c, held[c].spec))
<1>1. s \in Secrets /\ secret[s] # None /\ secret[s] \in MaybeSecret
  BY SecretNames DEF ServerSecret, CoreInv, Shape
<1>2. secret[s] \in SecretType
  BY <1>1, Objects
<1>3. secret' = [secret EXCEPT ![s] = [secret[s] EXCEPT !.owner = held[c].uid]]
  BY <1>1 DEF Owned
<1>4. held[c].uid \in Nat
  BY DEF CertType
<1>5. [secret[s] EXCEPT !.owner = held[c].uid] \in SecretType
  BY <1>2, <1>4 DEF SecretType
<1> QED BY <1>1, <1>2, <1>3, <1>5

\* The owner of a secret is set.
LEMMA OwnerCore == ASSUME CoreInv, SetCertSecretOwner PROVE CoreInv'
<1> DEFINE c == NextOwner
<1>1. pc = "owners" /\ todo # {} /\ UNCHANGED <<cert, issuer, queued, cur, want, held, readVars>>
      /\ UNCHANGED <<cacheVars, profile, crVars>>
  BY DEF SetCertSecretOwner, Step
<1>2. c \in todo /\ c \in Certs /\ held[c] \in CertType
  BY <1>1, NextOwnerForm
<1>3. \/ todo' = todo \ {c} /\ UNCHANGED <<pc, secret>>
      \/ CertSecret(c) # None /\ CertSecret(c) = ServerSecret(c) /\ Owned(c)
      \/ pc' = "waiting" /\ UNCHANGED <<secret, todo>>
  BY DEF SetCertSecretOwner
<1> HIDE DEF c
<1>4. pc' \in {"owners", "waiting"} /\ todo' \subseteq todo
  BY <1>1, <1>3 DEF Owned
<1>5. Where'
  BY <1>1, <1>4 DEF CoreInv, Where, Went, InNamespaces, Visits, Ends, readVars
<1>6. secret' \in [Secrets -> MaybeSecret] /\ SecretsOfCAs'
  <2>1. CASE UNCHANGED secret
    BY <1>1, <2>1 DEF CoreInv, Shape, SecretsOfCAs, cacheVars
  <2>2. CASE CertSecret(c) # None /\ CertSecret(c) = ServerSecret(c) /\ Owned(c)
    <3> DEFINE s == Home(SecretName(c, held[c].spec))
               x == [secret[s] EXCEPT !.owner = held[c].uid]
    <3>1. /\ s \in Secrets /\ secret[s] \in SecretType
          /\ secret' = [secret EXCEPT ![s] = x] /\ x \in SecretType
      BY <1>2, <2>2, OwnedForm
    <3>2. x.ca = secret[s].ca /\ x \in MaybeSecret /\ secret[s] # None
      BY <3>1, NamesAssumption DEF SecretType, MaybeSecret
    <3> HIDE DEF s, x
    <3>3. \A n \in CANames : s = Home(n) => x.ca[1] = n
      BY <3>2 DEF CoreInv, SecretsOfCAs
    <3> QED BY <1>1, <3>1, <3>2, <3>3, PutCore DEF cacheVars
  <2> QED BY <1>3, <2>1, <2>2
<1> QED BY <1>1, <1>4, <1>5, <1>6 DEF CoreInv, Shape, cacheVars, crVars, readVars, Labels

\* The reconcile ends, or goes on to the Route.
LEMMA EndsCore ==
  ASSUME CoreInv, OwnerRefused \/ CertsNotReady \/ AllCertsReady \/ ReconcileRoute
  PROVE  CoreInv'
<1>1. CASE OwnerRefused
  BY <1>1, FailCore DEF OwnerRefused
<1>2. CASE CertsNotReady
  <2>1. Forget /\ queued' = TRUE /\ condition' = "Waiting"
        /\ UNCHANGED <<serverVars, cacheVars, profile, route>>
    BY <1>2 DEF CertsNotReady, Return, CoreInv, Shape
  <2> QED BY <2>1, ForgetCore DEF CoreInv, Shape, SecretsOfCAs, serverVars, cacheVars
<1>3. CASE AllCertsReady
  <2>1. /\ pc = "owners" /\ pc' = "route" /\ condition' = "Ready"
        /\ UNCHANGED <<serverVars, cacheVars, profile, route, queued, cur, todo, want, held,
                       readVars>>
    BY <1>3 DEF AllCertsReady
  <2>2. Where'
    BY <2>1 DEF CoreInv, Where, Went, InNamespaces, Visits, Ends, readVars
  <2> QED BY <2>1, <2>2 DEF CoreInv, Shape, SecretsOfCAs, serverVars, cacheVars, readVars,
          Labels
<1>4. CASE ReconcileRoute
  <2>1. Forget /\ queued' = queued /\ route' = caBytes
        /\ UNCHANGED <<serverVars, cacheVars, profile, condition>>
    BY <1>4 DEF ReconcileRoute, Return, CoreInv, Shape
  <2> QED BY <2>1, ForgetCore DEF CoreInv, Shape, SecretsOfCAs, serverVars, cacheVars
<1> QED BY <1>1, <1>2, <1>3, <1>4

\* The place of a reconcile depends on nothing else.
LEMMA SamePlace ==
  ASSUME UNCHANGED localVars
  PROVE  /\ Where' <=> Where
         /\ \A c : Went(c)' <=> Went(c)
         /\ InNamespaces' <=> InNamespaces
BY DEF Where, Went, InNamespaces, localVars, readVars

\* Informers.
LEMMA SyncCore ==
  ASSUME CoreInv, SyncCerts \/ SyncIssuers \/ SyncSecrets \/ Resync PROVE CoreInv'
<1>1. /\ UNCHANGED <<serverVars, profile, crVars, localVars>> /\ queued' \in BOOLEAN
      /\ certSeen' \in {cert, certSeen} /\ issuerSeen' \in {issuer, issuerSeen}
      /\ secretSeen' \in {secret, secretSeen}
  BY DEF SyncCerts, SyncIssuers, SyncSecrets, Resync, Outside, CoreInv, Shape, cacheVars
<1>2. Where'
  BY <1>1, SamePlace DEF CoreInv
<1>3. SecretsOfCAs'
  BY <1>1 DEF CoreInv, SecretsOfCAs, serverVars
<1> QED BY <1>1, <1>2, <1>3 DEF CoreInv, Shape, serverVars, crVars, localVars, readVars

\* The secret that cert-manager writes.
IssuedSecret(c) ==
  [owner |-> IF secret[SecretOf(c)] = None THEN Nobody ELSE secret[SecretOf(c)].owner,
   spec  |-> cert[c].spec,
   ca    |-> IF c = "ca" THEN <<SecretOf(c)[2], Fresh(CAs)>> ELSE secret[Home(issuer.ca)].ca,
   rev   |-> Fresh(Revs(SecretOf(c)[2]))]

\* It has the form of a secret, and the CA's has a CA of its name.
LEMMA IssuedForm ==
  ASSUME CoreInv, NEW c \in Certs, cert[c] # None, Issuable(c), Issue(c, SecretOf(c))
  PROVE  /\ SecretOf(c) \in Secrets /\ cert[c] \in CertType
         /\ secret' = [secret EXCEPT ![SecretOf(c)] = IssuedSecret(c)]
         /\ IssuedSecret(c) \in SecretType
         /\ c = "ca" => IssuedSecret(c).ca[1] = SecretOf(c)[2]
<1>1. cert[c] \in CertType
  BY Objects DEF CoreInv, Shape
<1>2. SecretOf(c) \in Secrets
  BY SecretNames DEF SecretOf
<1>3. secret' = [secret EXCEPT ![SecretOf(c)] = IssuedSecret(c)]
  BY DEF Issue, IssuedSecret
<1>4. secret[SecretOf(c)] = None \/ secret[SecretOf(c)].owner \in Nat
  BY <1>2, Objects DEF CoreInv, Shape, SecretType
<1>5. Fresh(CAs) \in Nat \ {0, 1} /\ Fresh(Revs(SecretOf(c)[2])) \in Nat
  BY FreshCA, FreshRev DEF CoreInv
<1>0. c = "ca" => SecretOf(c)[2] \in CANames
  BY Homes DEF SecretOf, SecretName, CANames
<1>6. c # "ca" => secret[Home(issuer.ca)].ca \in CAType
  <2> SUFFICES ASSUME c # "ca" PROVE secret[Home(issuer.ca)].ca \in CAType
    OBVIOUS
  <2>1. issuer.ca \in CANames /\ secret[Home(issuer.ca)] # None
    BY DEF Issuable, CoreInv, Shape, IssuerType
  <2>2. Home(issuer.ca) \in Secrets
    BY <2>1, Homes DEF HomeNames
  <2> QED BY <2>1, <2>2, Objects DEF CoreInv, Shape, SecretType
<1>7. cert[c].spec \in CertSpecs
  BY <1>1 DEF CertType
<1>9. c = "ca" => <<SecretOf(c)[2], Fresh(CAs)>> \in CAType
  BY <1>0, <1>5 DEF CAType
<1>8. IssuedSecret(c) \in SecretType /\ (c = "ca" => IssuedSecret(c).ca[1] = SecretOf(c)[2])
  BY <1>4, <1>5, <1>6, <1>7, <1>9 DEF IssuedSecret, SecretType, Nobody
<1> QED BY <1>1, <1>2, <1>3, <1>8

\* A certificate is issued.
LEMMA IssueKeepsForm ==
  ASSUME CoreInv, NEW c \in Certs, cert[c] # None, Issuable(c), Issue(c, SecretOf(c)),
         UNCHANGED secretSeen
  PROVE  secret' \in [Secrets -> MaybeSecret] /\ SecretsOfCAs'
<1>1. IssuedSecret(c) \in MaybeSecret
  BY IssuedForm DEF MaybeSecret
<1>2. \A n \in CANames : SecretOf(c) = Home(n) => c = "ca" /\ SecretOf(c)[2] = n
  <2> SUFFICES ASSUME c # "ca", NEW n \in CANames, SecretOf(c) = Home(n) PROVE FALSE
    BY Homes
  <2>1. c \in Leaves /\ SecretOf(c) = Home(c)
    BY CertNames, SecretNames DEF SecretOf
  <2>2. c = n
    BY <2>1, Homes
  <2> QED BY <2>1, <2>2, CertNames DEF CANames
<1> QED BY <1>1, <1>2, IssuedForm, PutCore

\* The status that cert-manager gives a certificate.
LEMMA StatusForm ==
  ASSUME CoreInv, NEW c \in Certs, cert[c] # None PROVE StatusOf(c) \in CertType
<1>1. cert[c] \in CertType
  BY Objects DEF CoreInv, Shape
<1>2. Issued(c) => secret[SecretOf(c)].rev \in Nat
  <2>1. SecretOf(c) \in Secrets
    BY SecretNames DEF SecretOf
  <2> QED BY <2>1, Objects DEF Issued, CoreInv, Shape, SecretType
<1>3. Issued(c) \in BOOLEAN
  BY DEF Issued
<1> QED BY <1>1, <1>2, <1>3 DEF StatusOf, CertType

\* cert-manager.
LEMMA CertManagerCore == ASSUME CoreInv, NEW c \in Certs, CertManager(c) PROVE CoreInv'
<1>1. CASE IssueCertificate(c)
  <2>1. cert[c] # None /\ Issuable(c) /\ Issue(c, SecretOf(c))
        /\ UNCHANGED <<cert, issuer, cacheVars, queued, profile, crVars, localVars>>
    BY <1>1 DEF IssueCertificate, Outside
  <2>2. secret' \in [Secrets -> MaybeSecret] /\ SecretsOfCAs'
    BY <2>1, IssueKeepsForm DEF cacheVars
  <2>3. Where'
    BY <2>1, SamePlace DEF CoreInv
  <2> QED BY <2>1, <2>2, <2>3 DEF CoreInv, Shape, cacheVars, crVars, localVars, readVars
<1>2. CASE UpdateCertificate(c)
  <2>1. cert[c] # None /\ cert' = [cert EXCEPT ![c] = StatusOf(c)]
        /\ UNCHANGED <<issuer, secret, cacheVars, queued, profile, crVars, localVars>>
    BY <1>2 DEF UpdateCertificate, Outside
  <2>5. StatusOf(c) \in CertType
    BY <2>1, StatusForm
  <2>6. cert' \in [Certs -> MaybeCert]
    BY <2>1, <2>5 DEF CoreInv, Shape, MaybeCert
  <2>7. Where'
    BY <2>1, SamePlace DEF CoreInv
  <2> QED BY <2>1, <2>6, <2>7 DEF CoreInv, Shape, SecretsOfCAs, cacheVars, crVars, localVars,
          readVars
<1> QED BY <1>1, <1>2 DEF CertManager

\* A secret is collected or deleted.
LEMMA LostCore ==
  ASSUME CoreInv, NEW s \in Secrets, secret' = [secret EXCEPT ![s] = None],
         UNCHANGED <<cert, issuer, cacheVars, queued, crVars, localVars>>, profile' \in BOOLEAN
  PROVE  CoreInv'
<1>1. secret' \in [Secrets -> MaybeSecret] /\ SecretsOfCAs'
  BY PutCore DEF cacheVars, MaybeSecret
<1>2. Where'
  BY SamePlace DEF CoreInv
<1> QED BY <1>1, <1>2 DEF CoreInv, Shape, cacheVars, crVars, localVars, readVars

\* The garbage collector.
LEMMA GarbageCore == ASSUME CoreInv, NEW c \in Certs, GarbageCollect(c) PROVE CoreInv'
<1>1. PICK n \in IF c = "ca" THEN CANames ELSE {c} :
        Garbage(c, n) /\ secret' = [secret EXCEPT ![Home(n)] = None]
  BY DEF GarbageCollect
<1>2. Home(n) \in Secrets
  <2>1. n \in HomeNames
    BY CertNames DEF HomeNames
  <2> QED BY <2>1, Homes
<1> QED BY <1>1, <1>2, LostCore DEF GarbageCollect, Outside, CoreInv, Shape

\* Users.
LEMMA UsersCore == ASSUME CoreInv, Users PROVE CoreInv'
<1>1. CASE UpgradeCertManager
  <2>1. /\ profile' = TRUE
        /\ UNCHANGED <<secret, cert, issuer, cacheVars, crVars, localVars, queued>>
    BY <1>1 DEF UpgradeCertManager, Edit
  <2>2. Where'
    BY <2>1, SamePlace DEF CoreInv
  <2> QED BY <2>1, <2>2 DEF CoreInv, Shape, SecretsOfCAs, cacheVars, crVars, localVars, readVars
<1>2. ASSUME NEW c \in Certs, Renew(c) PROVE CoreInv'
  <2>1. cert[c] # None /\ Issuable(c) /\ Issue(c, SecretOf(c))
        /\ UNCHANGED <<cert, issuer, cacheVars, queued, profile, crVars, localVars>>
    BY <1>2 DEF Renew, Edit
  <2>2. secret' \in [Secrets -> MaybeSecret] /\ SecretsOfCAs'
    BY <2>1, IssueKeepsForm DEF cacheVars
  <2>3. Where'
    BY <2>1, SamePlace DEF CoreInv
  <2> QED BY <2>1, <2>2, <2>3 DEF CoreInv, Shape, cacheVars, crVars, localVars, readVars
<1>3. ASSUME NEW s \in Tampered, DeleteSecret(s) PROVE CoreInv'
  BY <1>3, LostCore, NamesAssumption DEF DeleteSecret, Edit, CoreInv, Shape
<1> QED BY <1>1, <1>2, <1>3 DEF Users

\* Failures.
LEMMA FaultCore == ASSUME CoreInv, CallFails \/ Restart PROVE CoreInv'
<1>1. /\ Forget /\ queued' = TRUE /\ UNCHANGED <<serverVars, profile, crVars>>
      /\ \/ UNCHANGED cacheVars
         \/ certSeen' = cert /\ issuerSeen' = issuer /\ secretSeen' = secret
  BY DEF CallFails, Restart, Fault, Return, CoreInv, Shape
<1> QED BY <1>1, ForgetCore DEF CoreInv, Shape, SecretsOfCAs, serverVars, cacheVars, crVars

\* What an older version of the operator left behind: no agents yet, and another CA.
LEMMA OldState ==
  ASSUME profile \in BOOLEAN, NEW o, NEW specs \in [Components -> {"old", "same"}],
         LeftBehind(o, specs)
  PROVE  /\ cert \in [Certs -> MaybeCert] /\ secret \in [Secrets -> MaybeSecret]
         /\ cert["ca"] # None /\ cert["ca"].spec = "old"
         /\ \A c \in Components : cert[c] # None
         /\ \A c \in Namespaces : cert[c] = None
         /\ secret[Home("caOld")].ca = <<"caOld", 2>> /\ secret[Root] = None
         /\ \A s \in Secrets : s[2] \in Namespaces => secret[s] = None
<1>1. /\ cert = [c \in Certs |-> IF c \in Namespaces THEN None
                   ELSE [uid |-> 2, spec |-> OldSpec(specs, c), ready |-> TRUE, rev |-> 2]]
      /\ secret = [s \in Secrets |-> OldSecret(o, specs, s)]
  BY DEF LeftBehind
<1>2. \A c : OldSpec(specs, c) \in CertSpecs
  BY DEF OldSpec, Desired, CertSpecs
<1>3. \A c : [uid |-> 2, spec |-> OldSpec(specs, c), ready |-> TRUE, rev |-> 2] \in CertType
  BY <1>2 DEF CertType
<1>4. cert \in [Certs -> MaybeCert]
  BY <1>1, <1>3 DEF MaybeCert
<1>5. \A c \in Certs \ Namespaces : cert[c] # None /\ cert[c].spec = OldSpec(specs, c)
  BY <1>1, <1>3, NamesAssumption
<1>6. cert["ca"] # None /\ cert["ca"].spec = "old"
  BY <1>5, CertNames DEF OldSpec
<1>7. \A s \in Secrets : OldSecret(o, specs, s) \in MaybeSecret
  <2>1. \A c : [owner |-> IF o = "cert" THEN 2 ELSE TheCR, spec |-> OldSpec(specs, c),
                ca |-> <<"caOld", 2>>, rev |-> 2] \in SecretType
    BY <1>2 DEF SecretType, TheCR, CAType, CANames
  <2>2. [owner |-> TheCR, spec |-> "new", ca |-> NoCA, rev |-> 2] \in SecretType
    BY DEF SecretType, TheCR, CertSpecs, CAType, NoCA
  <2>3. [owner |-> Nobody, spec |-> "copy", ca |-> <<"caOld", 2>>, rev |-> 0] \in SecretType
    BY DEF SecretType, Nobody, CAType, CANames
  <2> QED BY <2>1, <2>2, <2>3 DEF OldSecret, MaybeSecret
<1>8. secret \in [Secrets -> MaybeSecret]
  BY <1>1, <1>7
<1>9. \A n \in {"caOld", "caNew"} : Home(n) \in Secrets /\ Home(n) # Home("keystore")
                                   /\ \A c \in Components : Home(n) # Home(c)
  BY Homes, CertNames DEF HomeNames, CANames
<1>10. secret[Home("caOld")].ca = <<"caOld", 2>>
  BY <1>1, <1>9 DEF OldSecret
<1>11. Root \notin Remote \X {"caOld"} /\ Root # Home("caOld") /\ Root \in Secrets
  BY <1>9, Homes, Copies DEF Root
<1>12. OldSecret(o, specs, Root) = None
  BY <1>9, <1>11 DEF OldSecret, Root
<1>13. ASSUME NEW s \in Secrets, s[2] \in Namespaces PROVE secret[s] = None
  <2>1. s[2] # "keystore" /\ s[2] # "caOld" /\ s[2] \notin Components
    BY <1>13, CertNames
  <2>2. s # Home("keystore") /\ s # Home("caOld") /\ s \notin Remote \X {"caOld"}
        /\ ~ \E c \in Components : s = Home(c)
    BY <2>1, Homes
  <2> QED BY <1>1, <2>2 DEF OldSecret
<1> QED BY <1>1, <1>4, <1>5, <1>6, <1>8, <1>10, <1>11, <1>12, <1>13, CertNames

\* Initial states.
LEMMA InitCore == ASSUME Init PROVE CoreInv
<1>1. profile \in BOOLEAN
  BY ConstantsAssumption DEF Init
<1>2. /\ cert \in [Certs -> MaybeCert] /\ secret \in [Secrets -> MaybeSecret]
      /\ issuer \in IssuerType /\ condition \in {"Unset", "Waiting", "Ready"} /\ route \in CAType
      /\ \A n \in CANames : secret[Home(n)] # None => secret[Home(n)].ca[1] = n
  <2>1. CASE NothingYet
    BY <2>1, Homes DEF NothingYet, MaybeCert, MaybeSecret, IssuerType, HomeNames, CAType, NoCA
  <2>2. ASSUME NEW o, NEW specs \in [Components -> {"old", "same"}], LeftBehind(o, specs)
        PROVE  /\ cert \in [Certs -> MaybeCert] /\ secret \in [Secrets -> MaybeSecret]
               /\ issuer \in IssuerType /\ route \in CAType
               /\ condition \in {"Unset", "Waiting", "Ready"}
               /\ \A n \in CANames : secret[Home(n)] # None => secret[Home(n)].ca[1] = n
    <3>1. issuer = [self |-> TRUE, ca |-> "caOld"] /\ condition = "Ready"
          /\ route = <<"caOld", 2>>
      BY <2>2 DEF LeftBehind
    <3> QED BY <1>1, <2>2, <3>1, OldState DEF IssuerType, CANames, Root, CAType
  <2> QED BY <2>1, <2>2 DEF Init
<1>3. NoHeld \in [Certs -> MaybeCert]
  BY DEF NoHeld, MaybeCert
<1>4. Shape /\ SecretsOfCAs
  BY <1>1, <1>2, <1>3 DEF Init, Shape, SecretsOfCAs, Labels, CAType, NoCA
<1>5. Where
  BY DEF Init, Where, Went, InNamespaces, Visits, Ends
<1> QED BY <1>4, <1>5 DEF CoreInv

\* Every step keeps it.
LEMMA NextCore == CoreInv /\ [Next]_vars => CoreInv'
<1> SUFFICES ASSUME CoreInv, [Next]_vars PROVE CoreInv'
  OBVIOUS
<1>1. CASE Worker
  BY <1>1, ReconcileCore, SelfSignedCore, KeepCore, CreateCore, RecreateCore, DeleteSecretCore,
     ReadIssuerCore, ChainCertCore, ChainSecretCore, UpdateIssuerCore, KeystoreCore, ReadCACore,
     CopyCACore, CopyAgentCore, OwnerCore, EndsCore DEF Worker
<1>2. CASE SyncCerts \/ SyncIssuers \/ SyncSecrets \/ Resync
  BY <1>2, SyncCore
<1>3. ASSUME NEW c \in Certs, CertManager(c) \/ GarbageCollect(c) PROVE CoreInv'
  BY <1>3, CertManagerCore, GarbageCore
<1>4. CASE Users \/ CallFails \/ Restart
  BY <1>4, UsersCore, FaultCore
<1>5. CASE UNCHANGED vars
  <2>1. UNCHANGED <<serverVars, cacheVars, profile, crVars, queued, localVars>>
    BY <1>5 DEF vars
  <2>2. Where'
    BY <2>1, SamePlace DEF CoreInv
  <2> QED BY <2>1, <2>2
          DEF CoreInv, Shape, SecretsOfCAs, serverVars, cacheVars, crVars, localVars, readVars
<1> QED BY <1>1, <1>2, <1>3, <1>4, <1>5 DEF Next

\* The forms and the place of a reconcile are invariant.
THEOREM Invariance == Spec => []CoreInv
<1>1. Init => CoreInv
  BY InitCore
<1> QED BY <1>1, NextCore, PTL DEF Spec

\* Types; nobody holds a certificate or a CA between two reconciles, and a CA is in hand
\* from the moment setupTLS has read it.
THEOREM TypeCorrect == Spec => []TypeOK
<1>1. CoreInv => TypeOK
  <2> SUFFICES ASSUME CoreInv PROVE TypeOK
    OBVIOUS
  <2>1. \A x \in {cert, certSeen, held} : \A c \in Certs : x[c] # None => x[c] \in CertType
    BY Objects DEF CoreInv, Shape
  <2>2. \A x \in {secret, secretSeen} : \A s \in Secrets : x[s] # None => x[s] \in SecretType
    BY Objects DEF CoreInv, Shape
  <2>3. \A x \in {issuer, issuerSeen} : x.self \in BOOLEAN /\ x.ca \in CANames \union {None}
    BY DEF CoreInv, Shape, IssuerType
  <2>4. /\ pc = "idle" => held = NoHeld /\ chain = {} /\ caBytes = NoCA
        /\ pc \in {"caCopy", "agentCopy", "owners", "route"} => caBytes # NoCA
    BY DEF CoreInv, Where, Ends, InNamespaces
  <2> QED BY <2>1, <2>2, <2>3, <2>4 DEF TypeOK, CoreInv, Shape
<1> QED BY <1>1, Invariance, PTL

-----------------------------------------------------------------------------
(* Steps of a reconcile, events and caches.                                *)

\* The certificate that a visit ends with.
Settling(c) == c = cur /\ (KeepCertificate \/ CreateCertificate)

\* Only the worker takes a reconcile on; a failure ends it.
LEMMA Passive == ASSUME [Next]_vars, ~Worker PROVE Forget \/ UNCHANGED localVars
<1>1. CASE SyncCerts \/ SyncIssuers \/ SyncSecrets \/ Resync
  BY <1>1 DEF SyncCerts, SyncIssuers, SyncSecrets, Resync, Outside
<1>2. ASSUME NEW c \in Certs, CertManager(c) \/ GarbageCollect(c) PROVE UNCHANGED localVars
  BY <1>2 DEF CertManager, IssueCertificate, UpdateCertificate, GarbageCollect, Outside
<1>3. CASE Users
  BY <1>3 DEF Users, UpgradeCertManager, Renew, DeleteSecret, Edit
<1>4. CASE CallFails \/ Restart
  BY <1>4 DEF CallFails, Restart, Return
<1>5. CASE UNCHANGED vars
  BY <1>5 DEF vars
<1> QED BY <1>1, <1>2, <1>3, <1>4, <1>5 DEF Next

\* What a reconcile has been through stays, and it goes through one certificate at a time.
LEMMA Onward ==
  ASSUME CoreInv, [Next]_vars, NEW c \in Certs, Went(c)'
  PROVE  (Went(c) /\ held'[c] = held[c]) \/ Settling(c)
<1> USE DEF CoreInv
<1>1. pc' # "idle"
  BY DEF Went, InNamespaces, Visits, Ends
<1>2. ~Forget /\ ~Fail
  BY <1>1 DEF Fail, Return, Forget
<1>3. CASE Reconcile
  BY <1>3 DEF Reconcile, Went, InNamespaces, Visits, Ends
<1>4. CASE CreateSelfSignedIssuer
  BY <1>2, <1>4, CertNames DEF CreateSelfSignedIssuer, VisitCerts, Went, InNamespaces, Visits,
     Ends
<1>5. CASE KeepCertificate
  <2>1. pc = "cert" /\ cur \in Certs /\ certSeen[cur] \in MaybeCert /\ certSeen[cur] # None
    BY <1>5 DEF KeepCertificate, Step, Where, Visits, Shape
  <2>2. /\ held' \in [Certs -> MaybeCert] /\ held'[cur] # None
        /\ \A d \in Certs \ {cur} : held'[d] = held[d]
    BY <1>5, <2>1 DEF KeepCertificate, Hold, Shape, Where, Visits
  <2>3. AfterCert(cur) /\ want' = None /\ UNCHANGED readVars
    BY <1>5 DEF KeepCertificate
  <2>4. Went(c) \/ c = cur
    BY <2>1, <2>2, <2>3, AfterVisit
  <2> QED BY <1>5, <2>2, <2>4 DEF Settling
<1>6. CASE CreateCertificate
  <2>1. pc = "cert" /\ cur \in Certs /\ AfterCert(cur) /\ want' = None /\ UNCHANGED readVars
        /\ Hold(cur, cert'[cur]) /\ cert' = [cert EXCEPT ![cur] = NewCert(cur, Wanted(cur))]
    BY <1>2, <1>6 DEF CreateCertificate, Step, Where, Visits
  <2>2. cert'[cur] \in CertType
    BY <2>1, NewCertForm, WantedForm DEF Shape
  <2>3. /\ held' \in [Certs -> MaybeCert] /\ held'[cur] # None
        /\ \A d \in Certs \ {cur} : held'[d] = held[d]
    BY <2>1, <2>2, NamesAssumption DEF Hold, Shape, Where, Visits, MaybeCert
  <2>4. Went(c) \/ c = cur
    BY <2>1, <2>3, AfterVisit
  <2> QED BY <1>6, <2>3, <2>4 DEF Settling
<1>7. CASE RecreateCertificate
  <2>1. pc = "cert" /\ cur \in Certs /\ pc' = "certSecret" /\ UNCHANGED <<cur, todo>>
        /\ Hold(cur, certSeen[cur])
    BY <1>7 DEF RecreateCertificate, Step, Where, Visits
  <2>2. Went(c) /\ c # cur
    BY <2>1, CertNames DEF Went, InNamespaces, Visits, Ends
  <2> QED BY <2>1, <2>2 DEF Hold, Shape
<1>8. CASE DeleteCertSecret \/ CopyCASecret
  BY <1>2, <1>8, CertNames DEF DeleteCertSecret, CopyCASecret, Step, Where, Went, InNamespaces,
     Visits, Ends
<1>9. CASE ReadCAIssuer \/ DeleteChainCert \/ DeleteChainSecret \/ UpdateCAIssuer
  BY <1>2, <1>9 DEF ReadCAIssuer, DeleteChainCert, DeleteChainSecret, UpdateCAIssuer, Step,
     Went, InNamespaces, Visits, Ends
<1>10. CASE CreateKeystoreSecret
  <2>1. pc = "keystore" /\ held' = held /\ VisitCerts(Components, "caBytes")
    BY <1>2, <1>10 DEF CreateKeystoreSecret, Step
  <2> QED BY <2>1, CertNames DEF VisitCerts, Went, InNamespaces, Visits, Ends
<1>11. CASE ReadCA
  <2>1. pc = "caBytes" /\ held' = held /\ (pc' = "waiting" \/ VisitNamespaces(Namespaces))
    BY <1>2, <1>11 DEF ReadCA, Step
  <2> QED BY <2>1, CertNames DEF VisitNamespaces, Went, InNamespaces, Visits, Ends
<1>12. CASE CopyAgentSecret
  <2>1. pc = "agentCopy" /\ held' = held /\ VisitNamespaces(todo) /\ todo \subseteq Namespaces
    BY <1>2, <1>12 DEF CopyAgentSecret, Step, Where, InNamespaces
  <2> QED BY <2>1, CertNames DEF VisitNamespaces, Went, InNamespaces, Visits, Ends
<1>13. CASE SetCertSecretOwner \/ AllCertsReady
  BY <1>13 DEF SetCertSecretOwner, AllCertsReady, Step, Went, Ends
<1>14. CASE OwnerRefused \/ CertsNotReady \/ ReconcileRoute
  BY <1>2, <1>14 DEF OwnerRefused, CertsNotReady, ReconcileRoute, Return
<1>15. CASE UNCHANGED localVars
  BY <1>15, SamePlace DEF localVars
<1>16. CASE ~Worker
  BY <1>2, <1>15, <1>16, Passive
<1> QED BY <1>3, <1>4, <1>5, <1>6, <1>7, <1>8, <1>9, <1>10, <1>11, <1>12, <1>13, <1>14, <1>16
        DEF Worker

\* Who tells of what: a step announces what it changes, or changes nothing on the server.
LEMMA Told ==
  ASSUME [Next]_vars
  PROVE  \/ Announce /\ UNCHANGED cacheVars
         \/ UNCHANGED <<serverVars, news, cacheVars>>
         \/ SyncCerts \/ SyncIssuers \/ SyncSecrets \/ Restart
<1>1. CASE Fail
  BY <1>1 DEF Fail
<1>2. CASE Worker
  BY <1>1, <1>2 DEF Worker, Reconcile, CreateSelfSignedIssuer, KeepCertificate,
     CreateCertificate, RecreateCertificate, DeleteCertSecret, ReadCAIssuer, DeleteChainCert,
     DeleteChainSecret,
     UpdateCAIssuer, CreateKeystoreSecret, ReadCA, CopyCASecret, CopyAgentSecret,
     SetCertSecretOwner, OwnerRefused, CertsNotReady, AllCertsReady, ReconcileRoute, Step
<1>3. CASE Users
  BY <1>3 DEF Users, UpgradeCertManager, Renew, DeleteSecret, Edit, serverVars
<1>4. CASE Resync \/ CallFails
  BY <1>4 DEF Resync, CallFails, Fault
<1>5. ASSUME NEW c \in Certs, CertManager(c) \/ GarbageCollect(c)
      PROVE  Announce /\ UNCHANGED cacheVars
  BY <1>5 DEF CertManager, IssueCertificate, UpdateCertificate, GarbageCollect
<1>6. CASE UNCHANGED vars
  BY <1>6 DEF vars
<1> QED BY <1>2, <1>3, <1>4, <1>5, <1>6 DEF Next

\* A cache without events to come is exact, as far as events wake the operator.
CacheInv ==
  /\ "certs" \notin news => certSeen = cert
  /\ "issuers" \notin news => issuerSeen = issuer
  /\ "waking" \notin news =>
       \A s \in Secrets : s[1] # InstallNamespace => secretSeen[s] = secret[s]

\* What a step announces.
LEMMA Announced ==
  ASSUME Announce
  PROVE  /\ news \subseteq news'
         /\ cert' # cert => "certs" \in news'
         /\ issuer' # issuer => "issuers" \in news'
         /\ \A s \in Secrets :
              s[1] # InstallNamespace /\ secret'[s] # secret[s] => "waking" \in news'
BY DEF Announce, Events, Wakes

\* Every step keeps CacheInv.
LEMMA CacheStep == ASSUME CacheInv, [Next]_vars PROVE CacheInv'
<1>1. CASE Announce /\ UNCHANGED cacheVars
  BY <1>1, Announced DEF CacheInv, cacheVars
<1>2. CASE UNCHANGED <<serverVars, news, cacheVars>>
  BY <1>2 DEF CacheInv, cacheVars, serverVars
<1>3. CASE SyncCerts \/ SyncIssuers \/ SyncSecrets \/ Restart
  BY <1>3 DEF CacheInv, SyncCerts, SyncIssuers, SyncSecrets, Restart, Fault, serverVars
<1> QED BY <1>1, <1>2, <1>3, Told

\* Something announces another reconcile.
Awake == queued \/ "certs" \in news \/ "issuers" \in news \/ "waking" \in news

\* A step after which nothing announces one: it starts one, or nothing that wakes the
\* operator has changed.
LEMMA Asleep ==
  ASSUME CoreInv, [Next]_vars, ~Awake'
  PROVE  \/ Reconcile
         \/ /\ ~Awake /\ cert' = cert /\ issuer' = issuer
            /\ \A s \in Secrets : s[1] # InstallNamespace => secret'[s] = secret[s]
<1>1. Reconcile \/ ~queued
  <2>1. queued \in BOOLEAN
    BY DEF CoreInv, Shape
  <2>2. CASE Fail
    BY <2>2 DEF Fail, Return, Awake
  <2>3. CASE Worker
    BY <2>1, <2>2, <2>3 DEF Awake, Worker, CreateSelfSignedIssuer, KeepCertificate,
       CreateCertificate, RecreateCertificate, DeleteCertSecret, ReadCAIssuer, DeleteChainCert,
       DeleteChainSecret, UpdateCAIssuer, CreateKeystoreSecret, ReadCA, CopyCASecret,
       CopyAgentSecret, SetCertSecretOwner, OwnerRefused, CertsNotReady, AllCertsReady,
       ReconcileRoute, Return
  <2>4. CASE Users
    BY <2>4 DEF Awake, Users, UpgradeCertManager, Renew, DeleteSecret, Edit
  <2>5. CASE SyncCerts \/ SyncIssuers \/ SyncSecrets \/ Resync \/ CallFails \/ Restart
    BY <2>5 DEF Awake, SyncCerts, SyncIssuers, SyncSecrets, Resync, CallFails, Restart, Return
  <2>6. ASSUME NEW c \in Certs, CertManager(c) \/ GarbageCollect(c) PROVE queued' = queued
    BY <2>6 DEF CertManager, IssueCertificate, UpdateCertificate, GarbageCollect
  <2>7. CASE UNCHANGED vars
    BY <2>7 DEF Awake, vars
  <2> QED BY <2>3, <2>4, <2>5, <2>6, <2>7 DEF Next, Awake
<1>2. CASE Announce /\ UNCHANGED cacheVars
  BY <1>1, <1>2, Announced DEF Awake
<1>3. CASE UNCHANGED <<serverVars, news, cacheVars>>
  BY <1>1, <1>3 DEF Awake, serverVars
<1>4. CASE SyncCerts \/ SyncIssuers \/ Restart
  BY <1>4 DEF SyncCerts, SyncIssuers, Restart, Awake
<1>5. CASE SyncSecrets
  BY <1>5 DEF SyncSecrets, Awake, serverVars
<1> QED BY <1>2, <1>3, <1>4, <1>5, Told

-----------------------------------------------------------------------------
(* Certificates, and where a reconcile is with the CA.                     *)

IsNew(x) == x # None /\ x.spec = "new"

\* The same incarnation of a certificate with the same spec, or both are missing.
Same(x, y) == /\ x = None <=> y = None
              /\ x # None => x.uid = y.uid /\ x.spec = y.spec

\* What changes certificates: the operator one at a time; cert-manager only their status.
LEMMA CertSteps ==
  ASSUME CoreInv, [Next]_vars, NEW c \in Certs
  PROVE  \/ Same(cert[c], cert'[c])
         \/ c = cur /\ (CreateCertificate \/ RecreateCertificate)
         \/ DeleteChainCert
<1>1. CASE cert' = cert
  BY <1>1 DEF Same
<1>2. CASE Fail
  BY <1>1, <1>2 DEF Fail, serverVars
<1>3. CASE CreateCertificate \/ RecreateCertificate
  <2>1. CASE Step("cert") /\ cert' = [cert EXCEPT ![cur] = NewCert(cur, Wanted(cur))]
    BY <1>3, <2>1 DEF Same, CoreInv, Shape
  <2>2. CASE cert' = [cert EXCEPT ![cur] = None]
    BY <1>3, <2>2 DEF Same, CoreInv, Shape
  <2> QED BY <1>2, <1>3, <2>1, <2>2 DEF CreateCertificate, RecreateCertificate
<1>4. CASE Worker
  BY <1>1, <1>2, <1>3, <1>4 DEF Worker, Reconcile, CreateSelfSignedIssuer, KeepCertificate,
     DeleteCertSecret, ReadCAIssuer, DeleteChainSecret, UpdateCAIssuer, CreateKeystoreSecret,
     ReadCA, CopyCASecret, CopyAgentSecret, SetCertSecretOwner, OwnerRefused, CertsNotReady,
     AllCertsReady, ReconcileRoute, serverVars
<1>5. CASE Users
  BY <1>1, <1>5 DEF Users, UpgradeCertManager, Renew, DeleteSecret, Edit
<1>6. CASE SyncCerts \/ SyncIssuers \/ SyncSecrets \/ Resync \/ CallFails \/ Restart
  BY <1>1, <1>6 DEF SyncCerts, SyncIssuers, SyncSecrets, Resync, CallFails, Restart, Fault,
     serverVars
<1>7. ASSUME NEW d \in Certs, UpdateCertificate(d) PROVE Same(cert[c], cert'[c])
  <2>1. cert[d] \in CertType
    BY <1>7, Objects DEF UpdateCertificate, CoreInv, Shape
  <2>2. StatusOf(d) # None /\ StatusOf(d).uid = cert[d].uid /\ StatusOf(d).spec = cert[d].spec
    <3>1. StatusOf(d) \in CertType
      BY <1>7, StatusForm DEF UpdateCertificate
    <3> QED BY <2>1, <3>1, NamesAssumption DEF StatusOf, CertType
  <2> QED BY <1>7, <2>2 DEF UpdateCertificate, Same, CoreInv, Shape
<1>8. ASSUME NEW d \in Certs, IssueCertificate(d) \/ GarbageCollect(d) PROVE cert' = cert
  BY <1>8 DEF IssueCertificate, GarbageCollect
<1>9. CASE UNCHANGED vars
  BY <1>1, <1>9 DEF vars, serverVars
<1> QED BY <1>1, <1>4, <1>5, <1>6, <1>7, <1>8, <1>9 DEF Next, CertManager

\* Steps that neither look at a certificate nor list or delete those of another CA.
LEMMA Elsewhere ==
  ASSUME CoreInv, [Next]_vars, ~KeepCertificate, ~CreateCertificate, ~RecreateCertificate,
         ~ReadCAIssuer, ~DeleteChainCert
  PROVE  /\ certSeen' \in {certSeen, cert} /\ chain' \subseteq chain
         /\ pc' \in Visits /\ want' # None =>
              pc \in Visits /\ cur' = cur /\ want' = want /\ held' = held
         /\ pc' = "certSecret" => pc = "certSecret" /\ cur' = cur
         /\ pc' = "chainSecret" => pc = "chainSecret" /\ cur' = cur
<1>0. certSeen' \in {certSeen, cert}
  BY Told DEF cacheVars, SyncCerts, SyncIssuers, SyncSecrets, Restart
<1> SUFFICES /\ chain' \subseteq chain
             /\ pc' \in Visits /\ want' # None =>
                  pc \in Visits /\ cur' = cur /\ want' = want /\ held' = held
             /\ pc' = "certSecret" => pc = "certSecret" /\ cur' = cur
             /\ pc' = "chainSecret" => pc = "chainSecret" /\ cur' = cur
  BY <1>0
<1>1. CASE Forget
  BY <1>1 DEF Forget, Visits
<1>2. CASE UNCHANGED <<pc, cur, want, held, chain>>
  BY <1>2 DEF Visits
<1>3. CASE Fail
  BY <1>1, <1>3 DEF Fail, Return
<1>4. want = None \/ pc \in Visits \union {"chainSecret"}
  BY DEF CoreInv, Where
<1>5. CASE Reconcile \/ CreateSelfSignedIssuer
  BY <1>3, <1>4, <1>5 DEF Reconcile, CreateSelfSignedIssuer, Step, VisitCerts, Visits, readVars
<1>6. CASE DeleteCertSecret \/ CopyCASecret
  BY <1>3, <1>4, <1>6 DEF DeleteCertSecret, CopyCASecret, Step, Visits, readVars
<1>7. CASE DeleteChainSecret \/ UpdateCAIssuer
  BY <1>3, <1>4, <1>7 DEF DeleteChainSecret, UpdateCAIssuer, Step, Visits, readVars
<1>8. CASE CreateKeystoreSecret
  BY <1>3, <1>4, <1>8 DEF CreateKeystoreSecret, Step, VisitCerts, Visits, readVars
<1>9. CASE ReadCA
  BY <1>3, <1>4, <1>9 DEF ReadCA, Step, VisitNamespaces, Visits, readVars
<1>10. CASE CopyAgentSecret
  BY <1>3, <1>4, <1>10 DEF CopyAgentSecret, Step, VisitNamespaces, Visits, readVars
<1>11. CASE SetCertSecretOwner \/ OwnerRefused
  BY <1>3, <1>4, <1>11 DEF SetCertSecretOwner, OwnerRefused, Owned, Step, Visits, readVars
<1>12. CASE CertsNotReady \/ AllCertsReady \/ ReconcileRoute
  BY <1>1, <1>4, <1>12 DEF CertsNotReady, AllCertsReady, ReconcileRoute, Return, Visits,
     readVars
<1>13. CASE ~Worker
  <2>1. Forget \/ UNCHANGED localVars
    BY <1>13, Passive
  <2> QED BY <1>1, <1>2, <2>1 DEF localVars, readVars
<1> QED BY <1>5, <1>6, <1>7, <1>8, <1>9, <1>10, <1>11, <1>12, <1>13 DEF Worker

\* The reconcile has made the CA issuer name the present CA.
PastIssuer ==
  pc \in {"keystore", "caBytes"} \/ pc \in Ends \/ InNamespaces \/ (pc \in Visits /\ cur # "ca")

\* The reconcile has read the CA.
HasCA == pc \in Ends \/ InNamespaces

\* How a reconcile gets there.
LEMMA Progress ==
  ASSUME CoreInv, [Next]_vars
  PROVE  /\ PastIssuer' => PastIssuer \/ (UpdateCAIssuer /\ ~Fail)
         /\ HasCA' => (HasCA /\ caBytes' = caBytes) \/ (ReadCA /\ ~Fail)
<1> USE DEF CoreInv
<1>1. CASE Forget
  BY <1>1 DEF Forget, PastIssuer, HasCA, InNamespaces, Visits, Ends
<1>2. CASE UNCHANGED localVars
  BY <1>2 DEF localVars, readVars, PastIssuer, HasCA, InNamespaces, Visits, Ends
<1>3. CASE Fail
  BY <1>1, <1>3 DEF Fail, Return
<1>4. CASE Reconcile \/ CreateSelfSignedIssuer
  BY <1>3, <1>4, CertNames
     DEF Reconcile, CreateSelfSignedIssuer, VisitCerts, PastIssuer, HasCA, InNamespaces,
     Visits, Ends
<1>5. CASE KeepCertificate \/ CreateCertificate
  <2> SUFFICES ASSUME pc = "cert", AfterCert(cur), caBytes' = caBytes
               PROVE  (PastIssuer' => PastIssuer) /\ (HasCA' => HasCA)
    BY <1>3, <1>5 DEF KeepCertificate, CreateCertificate, Step, readVars
  <2>1. cur \in Certs /\ (cur \in Components => todo \subseteq Components)
    BY DEF Where, Visits
  <2> QED BY <2>1, CertNames DEF AfterCert, VisitCerts, PastIssuer, HasCA, InNamespaces,
          Visits, Ends
<1>6. CASE RecreateCertificate \/ DeleteCertSecret \/ CopyCASecret
  BY <1>3, <1>6, CertNames DEF RecreateCertificate, DeleteCertSecret, CopyCASecret, Step, Where,
     PastIssuer, HasCA, InNamespaces, Visits, Ends, readVars
<1>7. CASE ReadCAIssuer \/ DeleteChainCert \/ DeleteChainSecret
  BY <1>7 DEF ReadCAIssuer, DeleteChainCert, DeleteChainSecret, PastIssuer, HasCA, InNamespaces,
     Visits, Ends
<1>8. CASE UpdateCAIssuer
  BY <1>3, <1>8 DEF UpdateCAIssuer, HasCA, InNamespaces, Visits, Ends
<1>9. CASE CreateKeystoreSecret
  BY <1>3, <1>9, CertNames
     DEF CreateKeystoreSecret, Step, VisitCerts, PastIssuer, HasCA, InNamespaces, Visits, Ends
<1>10. CASE ReadCA
  BY <1>3, <1>10 DEF ReadCA, Step, PastIssuer
<1>11. CASE CopyAgentSecret
  BY <1>3, <1>11 DEF CopyAgentSecret, Step, PastIssuer, HasCA, InNamespaces
<1>12. CASE SetCertSecretOwner \/ AllCertsReady
  BY <1>12 DEF SetCertSecretOwner, AllCertsReady, Step, PastIssuer, HasCA, Ends, readVars
<1>13. CASE OwnerRefused \/ CertsNotReady \/ ReconcileRoute
  BY <1>1, <1>3, <1>13 DEF OwnerRefused, CertsNotReady, ReconcileRoute, Return
<1> QED BY <1>1, <1>2, <1>4, <1>5, <1>6, <1>7, <1>8, <1>9, <1>10, <1>11, <1>12, <1>13, Passive
        DEF Worker

\* The CA issuer, once it names the present CA, goes on doing so.
LEMMA IssuerSteps ==
  ASSUME CoreInv, [Next]_vars
  PROVE  /\ issuer'.ca = issuer.ca \/ issuer'.ca = "caNew"
         /\ UpdateCAIssuer /\ ~Fail => issuer'.ca = "caNew"
         /\ issuer'.ca # issuer.ca => UpdateCAIssuer
         /\ issuer.self => issuer'.self
<1>1. CASE issuer' = issuer /\ (UpdateCAIssuer => Fail)
  BY <1>1
<1>2. CASE Fail
  BY <1>1, <1>2 DEF Fail, serverVars
<1>3. issuer = [self |-> issuer.self, ca |-> issuer.ca]
  BY DEF CoreInv, Shape, IssuerType
<1>4. CASE CreateSelfSignedIssuer
  <2>1. CASE issuer' = [issuer EXCEPT !.self = TRUE] /\ pc = "selfSigned"
    BY <1>2, <1>3, <2>1 DEF UpdateCAIssuer, Step, CoreInv, Shape, IssuerType
  <2> QED BY <1>2, <1>4, <2>1 DEF CreateSelfSignedIssuer, Step
<1>5. CASE UpdateCAIssuer
  <2>1. CASE issuer' = [issuer EXCEPT !.ca = "caNew"]
    BY <1>3, <1>5, <2>1 DEF CoreInv, Shape, IssuerType
  <2> QED BY <1>2, <1>5, <2>1 DEF UpdateCAIssuer
<1>6. CASE ~UpdateCAIssuer /\ ~CreateSelfSignedIssuer /\ Worker
  <2>1. issuer' = issuer
    BY <1>6 DEF Fail, Worker, Reconcile, KeepCertificate, CreateCertificate,
       RecreateCertificate, DeleteCertSecret, ReadCAIssuer, DeleteChainCert, DeleteChainSecret,
       CreateKeystoreSecret, ReadCA, CopyCASecret, CopyAgentSecret, SetCertSecretOwner,
       OwnerRefused, CertsNotReady, AllCertsReady, ReconcileRoute, serverVars
  <2> QED BY <1>1, <1>6, <2>1
<1>7. CASE ~UpdateCAIssuer /\ Users
  BY <1>7 DEF Users, UpgradeCertManager, Renew, DeleteSecret, Edit
<1>8. CASE /\ ~UpdateCAIssuer
           /\ SyncCerts \/ SyncIssuers \/ SyncSecrets \/ Resync \/ CallFails \/ Restart
  BY <1>8 DEF SyncCerts, SyncIssuers, SyncSecrets, Resync, CallFails, Restart, Fault, serverVars
<1>9. ASSUME NEW d \in Certs, CertManager(d) \/ GarbageCollect(d) PROVE issuer' = issuer
  BY <1>9 DEF CertManager, IssueCertificate, UpdateCertificate, GarbageCollect
<1>10. CASE ~UpdateCAIssuer /\ UNCHANGED vars
  BY <1>10 DEF vars, serverVars
<1> QED BY <1>1, <1>4, <1>5, <1>6, <1>7, <1>8, <1>9, <1>10 DEF Next

\* x is signed by a CA of the name that this version of the operator uses, or is
\* the secret of one.
Signed(x) == x.ca[1] = "caNew"

\* The secrets of the agents' certificates and their copies: no older version had any.
AgentSecrets == {s \in Secrets : s[2] \in Namespaces}

AgentsSigned ==
  \A s \in AgentSecrets : /\ secret[s] # None => Signed(secret[s])
                          /\ secretSeen[s] # None => Signed(secretSeen[s])

\* The agents' certificates and the CA that a reconcile has read are of the new CA.
AnchorInv ==
  /\ AgentsSigned
  /\ PastIssuer => issuer.ca = "caNew"
  /\ \A ns \in Namespaces : cert[ns] # None => issuer.ca = "caNew"
  /\ HasCA /\ IsNew(held["ca"]) => caBytes[1] = "caNew"

\* What writes secrets.
LEMMA SecretSteps ==
  ASSUME [Next]_vars
  PROVE  \/ secret' = secret
         \/ DeleteCertSecret \/ DeleteChainSecret \/ CreateKeystoreSecret
         \/ CopyCASecret \/ CopyAgentSecret \/ SetCertSecretOwner
         \/ \E c \in Certs : IssueCertificate(c) \/ Renew(c) \/ GarbageCollect(c)
         \/ \E s \in Tampered : DeleteSecret(s)
<1>1. CASE Fail
  BY <1>1 DEF Fail, serverVars
<1>2. CASE Worker
  BY <1>1, <1>2 DEF Worker, Reconcile, CreateSelfSignedIssuer, KeepCertificate,
     CreateCertificate, RecreateCertificate, ReadCAIssuer, DeleteChainCert, UpdateCAIssuer,
     ReadCA, OwnerRefused,
     CertsNotReady, AllCertsReady, ReconcileRoute, serverVars
<1>3. CASE Users
  BY <1>3 DEF Users, UpgradeCertManager
<1>4. CASE SyncCerts \/ SyncIssuers \/ SyncSecrets \/ Resync \/ CallFails \/ Restart
  BY <1>4 DEF SyncCerts, SyncIssuers, SyncSecrets, Resync, CallFails, Restart, Fault, serverVars
<1>5. ASSUME NEW c \in Certs, UpdateCertificate(c) PROVE secret' = secret
  BY <1>5 DEF UpdateCertificate
<1>6. CASE UNCHANGED vars
  BY <1>6 DEF vars, serverVars
<1> QED BY <1>2, <1>3, <1>4, <1>5, <1>6 DEF Next, CertManager

\* One secret is written: not an agent's with another CA.
LEMMA AnchorPut ==
  ASSUME CoreInv, AnchorInv, UNCHANGED secretSeen,
         NEW s \in Secrets, NEW x, secret' = [secret EXCEPT ![s] = x],
         s[2] \in Namespaces /\ x # None => Signed(x)
  PROVE  AgentsSigned'
<1>1. secret'[s] = x /\ \A r \in Secrets \ {s} : secret'[r] = secret[r]
  BY DEF CoreInv, Shape
<1>2. ASSUME NEW r \in AgentSecrets PROVE /\ secret'[r] # None => Signed(secret'[r])
                                          /\ secretSeen'[r] # None => Signed(secretSeen'[r])
  BY <1>1, <1>2 DEF AgentSecrets, AnchorInv, AgentsSigned
<1> QED BY <1>2 DEF AgentsSigned, AgentSecrets, Signed

\* No secret is written, the cache is as it was or fresh.
LEMMA AnchorSame ==
  ASSUME AnchorInv, secret' = secret, secretSeen' \in {secretSeen, secret}
  PROVE  AgentsSigned'
BY DEF AgentSecrets, AnchorInv, AgentsSigned, Signed

\* The operator's copies.
LEMMA AnchorCopies ==
  ASSUME CoreInv, AnchorInv, CreateKeystoreSecret \/ CopyCASecret \/ CopyAgentSecret
  PROVE  AgentsSigned'
<1>1. CASE secret' = secret
  <2>1. secretSeen' = secretSeen
    BY DEF CreateKeystoreSecret, CopyCASecret, CopyAgentSecret, Fail, Step, cacheVars
  <2> QED BY <1>1, <2>1, AnchorSame
<1>2. CASE Fail
  BY <1>1, <1>2 DEF Fail, serverVars
<1>3. CASE CreateKeystoreSecret
  <2> DEFINE s == Home("keystore")
             x == [owner |-> TheCR, spec |-> "new", ca |-> NoCA, rev |-> Fresh(Revs("keystore"))]
  <2>1. CASE secret' = [secret EXCEPT ![s] = x] /\ secretSeen' = secretSeen
    <3>1. s \in Secrets /\ s[2] \notin Namespaces
      BY Homes, CertNames DEF HomeNames
    <3> HIDE DEF s, x
    <3> QED BY <2>1, <3>1, AnchorPut
  <2> QED BY <1>1, <1>2, <1>3, <2>1 DEF CreateKeystoreSecret, Step, cacheVars
<1>4. CASE CopyCASecret
  <2> DEFINE n == SecretName("ca", held["ca"].spec)
             s == <<cur, n>>
  <2>1. CASE pc = "caCopy" /\ cur # InstallNamespace /\ secret' = [secret EXCEPT ![s] = CACopy]
             /\ secretSeen' = secretSeen
    <3>1. cur \in Remote /\ n \in CANames
      BY <2>1 DEF Remote, CoreInv, Where, InNamespaces, SecretName, CANames
    <3>2. n \notin Namespaces
      BY <3>1, CertNames DEF CANames
    <3> HIDE DEF n
    <3>3. s \in Secrets /\ s[2] \notin Namespaces
      BY <3>1, <3>2, Copies
    <3> HIDE DEF s
    <3> QED BY <2>1, <3>3, AnchorPut
  <2> QED BY <1>1, <1>2, <1>4, <2>1 DEF CopyCASecret, CopyTo, Step, cacheVars
<1>5. CASE CopyAgentSecret
  <2> DEFINE x == [CertSecret(cur) EXCEPT !.owner = Nobody]
             s == <<cur, cur>>
  <2>1. CASE pc = "agentCopy" /\ cur # InstallNamespace /\ CertSecret(cur) # None
             /\ secret' = [secret EXCEPT ![s] = x] /\ secretSeen' = secretSeen
    <3>1. cur \in Remote /\ cur \in Namespaces /\ cur \in Leaves /\ cur \in Certs
      BY <2>1, CertNames DEF Remote, CoreInv, Where, InNamespaces
    <3>2. s \in Secrets
      BY <3>1, Copies
    <3>3. CertSecret(cur) = secretSeen[Home(cur)] /\ Home(cur) \in AgentSecrets
      BY <3>1, SecretNames, Homes DEF CertSecret, AgentSecrets, HomeNames
    <3>4. Signed(CertSecret(cur)) /\ CertSecret(cur) \in SecretType
      BY <2>1, <3>1, <3>3, CertSecretForm, Objects DEF AnchorInv, AgentsSigned
    <3>5. x.ca = CertSecret(cur).ca
      BY <3>4 DEF SecretType
    <3>6. Signed(x)
      BY <3>4, <3>5 DEF Signed
    <3> HIDE DEF s, x
    <3> QED BY <2>1, <3>2, <3>6, AnchorPut
  <2> QED BY <1>1, <1>2, <1>5, <2>1 DEF CopyAgentSecret, CopyTo, Step, cacheVars
<1> QED BY <1>3, <1>4, <1>5

\* A new owner.
LEMMA AnchorOwner == ASSUME CoreInv, AnchorInv, SetCertSecretOwner PROVE AgentsSigned'
<1> DEFINE c == NextOwner
           s == Home(SecretName(c, held[c].spec))
           x == [secret[s] EXCEPT !.owner = held[c].uid]
<1>1. pc = "owners" /\ todo # {} /\ UNCHANGED secretSeen
  BY DEF SetCertSecretOwner, Step, cacheVars
<1>2. c \in Certs /\ held[c] \in CertType
  BY <1>1, NextOwnerForm
<1>3. CASE secret' = secret
  BY <1>1, <1>3, AnchorSame
<1>4. CASE CertSecret(c) # None /\ CertSecret(c) = ServerSecret(c) /\ Owned(c)
  <2>1. ServerSecret(c) # None
    BY <1>4
  <2> HIDE DEF c
  <2>2. s \in Secrets /\ secret[s] \in SecretType /\ secret' = [secret EXCEPT ![s] = x]
    BY <1>2, <1>4, <2>1, OwnedForm
  <2>3. x.ca = secret[s].ca /\ secret[s] # None
    BY <2>2, NamesAssumption DEF SecretType
  <2>4. s[2] \in Namespaces => Signed(x)
    BY <2>2, <2>3 DEF Signed, AgentSecrets, AnchorInv, AgentsSigned
  <2> HIDE DEF s, x
  <2> QED BY <1>1, <2>2, <2>4, AnchorPut
<1> QED BY <1>3, <1>4 DEF SetCertSecretOwner

\* cert-manager issues or renews a certificate.
LEMMA AnchorIssue ==
  ASSUME CoreInv, AnchorInv, NEW c \in Certs, cert[c] # None, Issuable(c),
         Issue(c, SecretOf(c)), UNCHANGED secretSeen
  PROVE  AgentsSigned'
<1> DEFINE s == SecretOf(c)
           x == IssuedSecret(c)
<1>1. s \in Secrets /\ secret' = [secret EXCEPT ![s] = x]
  BY IssuedForm
<1>2. s[2] \in Namespaces => Signed(x)
  <2> SUFFICES ASSUME s[2] \in Namespaces PROVE Signed(x)
    OBVIOUS
  <2>1. c \in Namespaces /\ c # "ca"
    BY SecretNames, Homes, CertNames DEF SecretOf, SecretName
  <2>2. issuer.ca = "caNew" /\ secret[Root] # None /\ x.ca = secret[Root].ca
    BY <2>1 DEF AnchorInv, Issuable, IssuedSecret, Root
  <2> QED BY <2>2 DEF Signed, Root, CoreInv, SecretsOfCAs, CANames
<1> HIDE DEF s, x
<1> QED BY <1>1, <1>2, AnchorPut

\* Nothing but the new CA signs the agents' secrets.
LEMMA AnchorSecrets == ASSUME CoreInv, AnchorInv, [Next]_vars PROVE AgentsSigned'
<1>1. CASE secret' = secret
  <2>1. secretSeen' \in {secretSeen, secret}
    BY Told DEF cacheVars, SyncCerts, SyncIssuers, SyncSecrets, Restart
  <2> QED BY <1>1, <2>1, AnchorSame
<1>2. CASE DeleteCertSecret \/ DeleteChainSecret
  <2> DEFINE s == Home(SecretName(cur, want))
  <2>1. secret' = [secret EXCEPT ![s] = None] /\ UNCHANGED secretSeen /\ cur \in Certs
    BY <1>2 DEF DeleteCertSecret, DeleteChainSecret, Step, cacheVars, CoreInv, Where, Visits
  <2>2. s \in Secrets
    BY <2>1, SecretNames
  <2> HIDE DEF s
  <2> QED BY <2>1, <2>2, AnchorPut
<1>3. CASE CreateKeystoreSecret \/ CopyCASecret \/ CopyAgentSecret
  BY <1>3, AnchorCopies
<1>4. CASE SetCertSecretOwner
  BY <1>4, AnchorOwner
<1>5. ASSUME NEW c \in Certs, IssueCertificate(c) PROVE AgentsSigned'
  BY <1>5, AnchorIssue DEF IssueCertificate, cacheVars
<1>6. ASSUME NEW c \in Certs, GarbageCollect(c) PROVE AgentsSigned'
  <2>1. PICK n \in IF c = "ca" THEN CANames ELSE {c} : secret' = [secret EXCEPT ![Home(n)] = None]
    BY <1>6 DEF GarbageCollect
  <2>2. Home(n) \in Secrets /\ secretSeen' = secretSeen
    BY <1>6, <2>1, Homes, CertNames DEF HomeNames, GarbageCollect, cacheVars
  <2> QED BY <2>1, <2>2, AnchorPut
<1>7. ASSUME NEW c \in Certs, Renew(c) PROVE AgentsSigned'
  BY <1>7, AnchorIssue DEF Renew, Edit, cacheVars
<1>8. ASSUME NEW s \in Tampered, DeleteSecret(s) PROVE AgentsSigned'
  BY <1>8, AnchorPut, NamesAssumption DEF DeleteSecret, Edit, cacheVars
<1> QED BY <1>1, <1>2, <1>3, <1>4, <1>5, <1>6, <1>7, <1>8, SecretSteps

\* A certificate that a step creates.
LEMMA NewCertificate ==
  ASSUME CoreInv, [Next]_vars, NEW c \in Certs, cert[c] = None, cert'[c] # None
  PROVE  /\ pc = "cert" /\ cur = c /\ CreateCertificate /\ ~Fail
         /\ cert' = [cert EXCEPT ![c] = NewCert(c, Wanted(c))]
<1>1. ~DeleteChainCert
  <2>1. (DeleteChainCert) => \E d : cert' = [cert EXCEPT ![d] = None]
    BY DEF DeleteChainCert
  <2> QED BY <2>1 DEF CoreInv, Shape
<1>2. ~RecreateCertificate
  BY DEF RecreateCertificate, CoreInv, Shape
<1>3. c = cur /\ CreateCertificate
  BY <1>1, <1>2, CertSteps DEF Same
<1>4. ~Fail
  BY DEF Fail, serverVars
<1> QED BY <1>3, <1>4 DEF CreateCertificate, Step

\* Every step keeps AnchorInv.
LEMMA AnchorStep ==
  ASSUME CoreInv, CoreInv', AnchorInv, [Next]_vars PROVE AnchorInv'
<1>1. AgentsSigned'
  BY AnchorSecrets
<1>2. PastIssuer' => issuer'.ca = "caNew"
  BY Progress, IssuerSteps DEF AnchorInv
<1>3. ASSUME NEW ns \in Namespaces, cert'[ns] # None PROVE issuer'.ca = "caNew"
  <2>1. ns \in Certs /\ ns # "ca"
    BY CertNames
  <2>2. CASE cert[ns] # None
    BY <2>2, IssuerSteps DEF AnchorInv
  <2>3. CASE cert[ns] = None
    <3>1. pc = "cert" /\ cur = ns
      BY <1>3, <2>1, <2>3, NewCertificate
    <3>2. PastIssuer
      BY <2>1, <3>1 DEF PastIssuer, Visits
    <3> QED BY <3>2, IssuerSteps DEF AnchorInv
  <2> QED BY <2>2, <2>3
<1>4. ASSUME HasCA', IsNew(held'["ca"]) PROVE caBytes'[1] = "caNew"
  <2>1. CASE ReadCA /\ ~Fail
    <3>1. pc = "caBytes" /\ held' = held
          /\ CertSecret("ca") # None /\ caBytes' = CertSecret("ca").ca
      BY <1>4, <2>1 DEF ReadCA, Step, HasCA, Ends, InNamespaces, Visits
    <3>2. CertSecret("ca") = secretSeen[Root]
      BY <1>4, <3>1, SecretNames DEF CertSecret, IsNew, Root
    <3> QED BY <3>1, <3>2 DEF CoreInv, SecretsOfCAs, Root, CANames
  <2>2. CASE HasCA /\ caBytes' = caBytes
    <3>1. Went("ca")'
      BY <1>4, CertNames DEF HasCA, Went, InNamespaces, Visits, Ends
    <3>2. ~Settling("ca")
      BY <2>2, CertNames DEF Settling, HasCA, InNamespaces, Ends, KeepCertificate,
         CreateCertificate, Step, CoreInv, Where
    <3>3. held'["ca"] = held["ca"]
      BY <3>1, <3>2, Onward, CertNames
    <3> QED BY <1>4, <2>2, <3>3 DEF AnchorInv
  <2> QED BY <1>4, <2>1, <2>2, Progress
<1> QED BY <1>1, <1>2, <1>3, <1>4 DEF AnchorInv

\* Initial states have no agents.
LEMMA AnchorInit == ASSUME Init PROVE AnchorInv
<1>1. pc = "idle" /\ secretSeen = secret
  BY DEF Init
<1>2. /\ \A ns \in Namespaces : cert[ns] = None
      /\ \A s \in Secrets : s[2] \in Namespaces => secret[s] = None
  <2>1. CASE NothingYet
    BY <2>1, CertNames DEF NothingYet
  <2>2. ASSUME NEW o, NEW specs \in [Components -> {"old", "same"}], LeftBehind(o, specs)
        PROVE  /\ \A ns \in Namespaces : cert[ns] = None
               /\ \A s \in Secrets : s[2] \in Namespaces => secret[s] = None
    <3>1. profile \in BOOLEAN
      BY ConstantsAssumption DEF Init
    <3> QED BY <2>2, <3>1, OldState
  <2> QED BY <2>1, <2>2 DEF Init
<1>3. AgentsSigned
  BY <1>1, <1>2 DEF AgentsSigned, AgentSecrets
<1>4. ~PastIssuer /\ ~HasCA
  BY <1>1 DEF PastIssuer, HasCA, InNamespaces, Visits, Ends
<1> QED BY <1>2, <1>3, <1>4 DEF AnchorInv

\* The certificate c is issued by the CA that the issuer names.
IssuedByCA(c) ==
  /\ cert[c] # None /\ issuer.ca # None /\ secret[Home(issuer.ca)] # None
  /\ secret'[Home(c)].ca = secret[Home(issuer.ca)].ca
  /\ UNCHANGED <<issuer, cert>>

\* What happens to the secret of a certificate: it keeps its content, goes, or gets
\* another one -- if it is not the CA's, from the CA that the issuer names.
LEMMA CertificateSecret ==
  ASSUME CoreInv, [Next]_vars, NEW c \in CANames \union Leaves, secret'[Home(c)] # None
  PROVE  \/ secret[Home(c)] # None /\ Content(secret'[Home(c)]) = Content(secret[Home(c)])
         \/ secret'[Home(c)].rev = Fresh(Revs(c)) /\ (c \in Leaves => IssuedByCA(c))
<1>1. Home(c) \in Secrets /\ c # "keystore"
  BY CertNames, Homes DEF HomeNames, CANames
<1>2. CASE secret'[Home(c)] = secret[Home(c)]
  BY <1>2
<1>3. ASSUME NEW s \in Secrets, NEW x, secret' = [secret EXCEPT ![s] = x], s # Home(c) \/ x = None
      PROVE  secret'[Home(c)] = secret[Home(c)]
  BY <1>1, <1>3 DEF CoreInv, Shape
<1>4. CASE DeleteCertSecret \/ DeleteChainSecret
  <2>1. Home(SecretName(cur, want)) \in Secrets
    BY <1>4, SecretNames DEF DeleteCertSecret, DeleteChainSecret, Step, CoreInv, Where, Visits
  <2> QED BY <1>2, <1>3, <1>4, <2>1 DEF DeleteCertSecret, DeleteChainSecret
<1>5. CASE CreateKeystoreSecret \/ CopyCASecret \/ CopyAgentSecret
  <2>1. CASE Fail
    BY <1>2, <2>1 DEF Fail, serverVars
  <2>2. CASE CreateKeystoreSecret
    <3>1. Home("keystore") \in Secrets /\ Home("keystore") # Home(c)
      BY <1>1, Homes DEF HomeNames
    <3> QED BY <1>2, <1>3, <2>1, <2>2, <3>1 DEF CreateKeystoreSecret
  <2>3. CASE CopyCASecret
    <3> DEFINE n == SecretName("ca", held["ca"].spec)
    <3>1. n \in CANames
      BY DEF SecretName, CANames
    <3>2. pc = "caCopy" /\ cur # InstallNamespace => cur \in Remote
      BY DEF Remote, CoreInv, Where, InNamespaces
    <3>3. pc = "caCopy" /\ cur # InstallNamespace =>
            <<cur, n>> \in Secrets /\ <<cur, n>> # Home(c)
      BY <3>1, <3>2, Copies
    <3> QED BY <1>2, <1>3, <2>1, <2>3, <3>3 DEF CopyCASecret, CopyTo, Step
  <2>4. CASE CopyAgentSecret
    <3>1. pc = "agentCopy" /\ cur # InstallNamespace => cur \in Remote
      BY DEF Remote, CoreInv, Where, InNamespaces
    <3>2. pc = "agentCopy" /\ cur # InstallNamespace =>
            <<cur, cur>> \in Secrets /\ <<cur, cur>> # Home(c)
      BY <3>1, Copies
    <3> QED BY <1>2, <1>3, <2>1, <2>4, <3>2 DEF CopyAgentSecret, CopyTo, Step
  <2> QED BY <1>5, <2>2, <2>3, <2>4
<1>6. CASE SetCertSecretOwner
  <2> DEFINE d == NextOwner
             s == Home(SecretName(d, held[d].spec))
             x == [secret[s] EXCEPT !.owner = held[d].uid]
  <2>1. pc = "owners" /\ todo # {}
    BY <1>6 DEF SetCertSecretOwner, Step
  <2>2. d \in Certs /\ held[d] \in CertType
    BY <2>1, NextOwnerForm
  <2>3. CASE secret' = secret
    BY <1>2, <2>3
  <2>4. CASE CertSecret(d) # None /\ CertSecret(d) = ServerSecret(d) /\ Owned(d)
    <3>1. ServerSecret(d) # None
      BY <2>4
    <3> HIDE DEF d
    <3>2. s \in Secrets /\ secret[s] \in SecretType /\ secret' = [secret EXCEPT ![s] = x]
      BY <2>2, <2>4, <3>1, OwnedForm
    <3>3. x.ca = secret[s].ca /\ x.rev = secret[s].rev /\ secret[s] # None
      BY <3>2, NamesAssumption DEF SecretType
    <3> HIDE DEF s, x
    <3>4. CASE s # Home(c)
      BY <1>2, <1>3, <3>2, <3>4
    <3>5. CASE s = Home(c)
      BY <3>2, <3>3, <3>5 DEF CoreInv, Shape, Content
    <3> QED BY <3>4, <3>5
  <2> QED BY <1>6, <2>3, <2>4 DEF SetCertSecretOwner
<1>7. ASSUME NEW d \in Certs, cert[d] # None, Issuable(d), Issue(d, SecretOf(d)),
             UNCHANGED <<issuer, cert>>
      PROVE  \/ secret'[Home(c)] = secret[Home(c)]
             \/ secret'[Home(c)].rev = Fresh(Revs(c)) /\ (c \in Leaves => IssuedByCA(c))
  <2>1. SecretOf(d) \in Secrets /\ secret' = [secret EXCEPT ![SecretOf(d)] = IssuedSecret(d)]
    BY <1>7, IssuedForm
  <2>2. CASE SecretOf(d) # Home(c)
    BY <1>3, <2>1, <2>2
  <2>3. CASE SecretOf(d) = Home(c)
    <3>1. c \in Leaves => d = c /\ d # "ca"
      BY <2>3, SecretNames, Homes, CertNames DEF SecretOf, SecretName
    <3>2. secret'[Home(c)] = IssuedSecret(d) /\ SecretOf(d)[2] = c
      BY <1>1, <2>1, <2>3, Homes DEF CoreInv, Shape
    <3>3. secret'[Home(c)].rev = Fresh(Revs(c))
      BY <3>2 DEF IssuedSecret
    <3>4. c \in Leaves => IssuedByCA(c)
      BY <1>7, <3>1, <3>2 DEF IssuedSecret, Issuable, IssuedByCA
    <3> QED BY <3>3, <3>4
  <2> QED BY <2>2, <2>3
<1>8. ASSUME NEW d \in Certs, GarbageCollect(d) PROVE secret'[Home(c)] = secret[Home(c)]
  <2>1. PICK n \in IF d = "ca" THEN CANames ELSE {d} : secret' = [secret EXCEPT ![Home(n)] = None]
    BY <1>8 DEF GarbageCollect
  <2>2. Home(n) \in Secrets
    BY <2>1, Homes, CertNames DEF HomeNames
  <2> QED BY <1>3, <2>1, <2>2
<1>9. ASSUME NEW s \in Tampered, DeleteSecret(s) PROVE secret'[Home(c)] = secret[Home(c)]
  BY <1>3, <1>9, NamesAssumption DEF DeleteSecret
<1>10. ASSUME NEW d \in Certs, IssueCertificate(d) \/ Renew(d)
       PROVE  /\ cert[d] # None /\ Issuable(d) /\ Issue(d, SecretOf(d))
              /\ UNCHANGED <<issuer, cert>>
  BY <1>10 DEF IssueCertificate, Renew, Edit
<1> QED BY <1>2, <1>4, <1>5, <1>6, <1>7, <1>8, <1>9, <1>10, SecretSteps, CertNames

-----------------------------------------------------------------------------
(* When nothing announces another reconcile, this one has done its work.   *)

\* The reconcile has made the copies of the CA, and of the agent's secret, in a namespace.
CAVisited(ns) ==
  pc \in Ends \/ pc = "idle" \/ (InNamespaces /\ ns \notin todo /\ ~(pc = "caCopy" /\ ns = cur))
AgentVisited(ns) == pc \in Ends \/ pc = "idle" \/ (InNamespaces /\ ns \notin todo /\ ns # cur)

Begun == pc \notin {"idle", "selfSigned", "waiting"}

\* How a reconcile goes on that is neither woken again nor begins.
Goes(ns) ==
  /\ pc' = "idle" => (pc = "idle" /\ UNCHANGED <<crVars, unready>>) \/ ReconcileRoute
  /\ condition' = condition \/ AllCertsReady
  /\ unready => unready'
  /\ Begun' => Begun \/ CreateSelfSignedIssuer
  /\ ns \in Remote /\ CAVisited(ns)' => CAVisited(ns) \/ (CopyCASecret /\ cur = ns)
  /\ ns \in Remote /\ AgentVisited(ns)' => AgentVisited(ns) \/ (CopyAgentSecret /\ cur = ns)

\* While nothing wakes the operator again there is no error, and only the end of a reconcile
\* that went all the way ends it.
LEMMA Quiet ==
  ASSUME CoreInv, [Next]_vars, ~Awake', ~Reconcile, NEW ns
  PROVE  ~Fail /\ Goes(ns)
<1> USE DEF CoreInv
<1>1. queued' # TRUE
  BY DEF Awake
<1>2. ~Fail /\ ~Restart /\ ~CallFails /\ ~CertsNotReady /\ ~OwnerRefused
  BY <1>1 DEF Fail, Restart, CallFails, CertsNotReady, OwnerRefused, Return
<1> SUFFICES Goes(ns)
  BY <1>2
<1>3. CASE CreateSelfSignedIssuer
  BY <1>2, <1>3, CertNames DEF CreateSelfSignedIssuer, Step, VisitCerts, crVars, readVars,
     Goes, Begun, CAVisited, AgentVisited, InNamespaces, Visits, Ends
<1>4. CASE KeepCertificate \/ CreateCertificate
  <2> SUFFICES ASSUME pc = "cert", AfterCert(cur), condition' = condition, unready' = unready
               PROVE  Goes(ns)
    BY <1>2, <1>4 DEF KeepCertificate, CreateCertificate, Step, readVars, crVars
  <2>1. cur \in Certs /\ (cur \in Components => todo \subseteq Components)
    BY DEF Where, Visits
  <2>2. CASE cur \notin Namespaces
    BY <2>1, <2>2, CertNames DEF AfterCert, VisitCerts, Goes, Begun, CAVisited, AgentVisited,
       InNamespaces, Visits, Ends
  <2>3. CASE cur \in Namespaces
    <3>1. pc' = "agentCopy" /\ cur' = cur /\ todo' = todo
      BY <2>1, <2>3, CertNames DEF AfterCert
    <3> QED BY <2>3, <3>1 DEF Goes, Begun, CAVisited, AgentVisited, InNamespaces, Visits, Ends
  <2> QED BY <2>2, <2>3
<1>5. CASE RecreateCertificate \/ DeleteCertSecret
  BY <1>5 DEF RecreateCertificate, DeleteCertSecret, Step, crVars, readVars, Goes, Begun,
     CAVisited, AgentVisited, InNamespaces, Visits, Ends
<1>6. CASE ReadCAIssuer \/ DeleteChainCert \/ DeleteChainSecret \/ UpdateCAIssuer
  BY <1>2, <1>6 DEF ReadCAIssuer, DeleteChainCert, DeleteChainSecret, UpdateCAIssuer, Step,
     crVars, readVars, Goes, Begun, CAVisited, AgentVisited, InNamespaces, Visits, Ends
<1>7. CASE CreateKeystoreSecret
  BY <1>2, <1>7, CertNames DEF CreateKeystoreSecret, Step, VisitCerts, crVars, readVars, Goes,
     Begun, CAVisited, AgentVisited, InNamespaces, Visits, Ends
<1>8. CASE ReadCA
  <2>1. pc = "caBytes" /\ (pc' = "waiting" \/ VisitNamespaces(Namespaces)) /\ unready' = unready
        /\ condition' = condition
    BY <1>2, <1>8 DEF ReadCA, Step, crVars, readVars
  <2>2. ns \in Remote => ns \in Namespaces
    BY CertNames
  <2> QED BY <2>1, <2>2 DEF VisitNamespaces, Goes, Begun, CAVisited, AgentVisited, InNamespaces,
          Visits, Ends
<1>9. CASE CopyCASecret
  <2>1. pc = "caCopy" /\ pc' = "cert" /\ UNCHANGED <<cur, todo, unready, condition>>
    BY <1>2, <1>9 DEF CopyCASecret, Step, crVars, readVars
  <2> QED BY <1>9, <2>1 DEF Goes, Begun, CAVisited, AgentVisited, InNamespaces, Visits, Ends
<1>10. CASE CopyAgentSecret
  <2>1. pc = "agentCopy" /\ VisitNamespaces(todo) /\ (unready => unready')
        /\ condition' = condition
    BY <1>2, <1>10 DEF CopyAgentSecret, Step, crVars
  <2>2. CASE todo = {}
    BY <1>10, <2>1, <2>2 DEF VisitNamespaces, Goes, Begun, CAVisited, AgentVisited,
       InNamespaces, Visits, Ends
  <2>3. CASE todo # {}
    <3>1. PICK m \in todo : pc' = "caCopy" /\ cur' = m /\ todo' = todo \ {m}
      BY <2>1, <2>3 DEF VisitNamespaces
    <3> QED BY <1>10, <2>1, <3>1 DEF Goes, Begun, CAVisited, AgentVisited, InNamespaces,
            Visits, Ends
  <2> QED BY <2>2, <2>3
<1>11. CASE SetCertSecretOwner \/ AllCertsReady
  BY <1>11 DEF SetCertSecretOwner, AllCertsReady, Owned, Step, crVars, readVars, Goes, Begun,
     CAVisited, AgentVisited, InNamespaces, Visits, Ends
<1>12. CASE ReconcileRoute
  BY <1>12 DEF ReconcileRoute, Return, Forget, Goes, Begun, CAVisited, AgentVisited, Where, Ends
<1>13. CASE ~Worker
  <2>1. UNCHANGED <<localVars, crVars>>
    <3>1. CASE SyncCerts \/ SyncIssuers \/ SyncSecrets \/ Resync
      BY <3>1 DEF SyncCerts, SyncIssuers, SyncSecrets, Resync, Outside
    <3>2. ASSUME NEW c \in Certs, CertManager(c) \/ GarbageCollect(c)
          PROVE  UNCHANGED <<localVars, crVars>>
      BY <3>2 DEF CertManager, IssueCertificate, UpdateCertificate, GarbageCollect, Outside
    <3>3. CASE Users
      BY <3>3 DEF Users, UpgradeCertManager, Renew, DeleteSecret, Edit
    <3>4. CASE UNCHANGED vars
      BY <3>4 DEF vars
    <3> QED BY <1>2, <1>13, <3>1, <3>2, <3>3, <3>4 DEF Next
  <2> QED BY <2>1 DEF localVars, readVars, crVars, Goes, Begun, CAVisited, AgentVisited,
                      InNamespaces, Visits, Ends
<1> QED BY <1>2, <1>3, <1>4, <1>5, <1>6, <1>7, <1>8, <1>9, <1>10, <1>11, <1>12, <1>13 DEF Worker

\* The certificate is there with the operator's spec.
Good(c) == cert[c] # None /\ (c \notin Keystores => cert[c].spec = "new")

\* The CA that the Route gets, or has got.
TrustedCA == IF pc = "idle" THEN route ELSE caBytes

CopiedCA(ns) == secret[<<ns, "caNew">>] # None /\ secret[<<ns, "caNew">>].ca = TrustedCA

\* The secret with the operator's spec has the content that the certificate's status tells.
NewSecret(c) == Home(SecretName(c, "new"))
Known(c) == secret[NewSecret(c)] # None /\ secret[NewSecret(c)].rev = cert[c].rev

\* What was read from a cache that did not lag is the present content, unless there is
\* another one that the certificate's status does not tell of yet.
CAFresh ==
  (HasCA \/ pc = "idle") /\ "ca" \notin lagged /\ Known("ca") => TrustedCA = secret[Root].ca
AgentFresh(ns) ==
  AgentVisited(ns) /\ ~unready /\ ns \notin lagged /\ Known(ns) =>
    Content(secret[<<ns, ns>>]) = Content(secret[Home(ns)])

\* When no other reconcile is announced: what the running one has been through is in
\* order, and between two reconciles everything is.
RestInv ==
  ~Awake =>
    /\ pc \in Visits => want = None
    /\ \A c \in Certs : Went(c) => held[c] = cert[c] /\ Good(c)
    /\ Begun => issuer.self
    /\ \A ns \in Remote : /\ CAVisited(ns) => CopiedCA(ns)
                          /\ AgentVisited(ns) => unready \/ secret[<<ns, ns>>] # None
                          /\ AgentFresh(ns)
    /\ CAFresh
    /\ pc = "owners" => \A c \in Certs \ todo : cert[c].ready
    /\ pc = "route" => condition = "Ready" /\ \A c \in Certs : cert[c].ready
    /\ pc = "idle" => /\ condition = "Ready" /\ ~unready
                      /\ \A c \in Certs : Good(c) /\ cert[c].ready
                      /\ issuer = [self |-> TRUE, ca |-> "caNew"]
                      /\ route[1] = "caNew"

\* A visit that wakes nobody keeps a certificate that is as the operator wants it.
LEMMA RestVisit ==
  ASSUME CoreInv, CoreInv', CacheInv, [Next]_vars, ~Awake, ~Awake', RestInv,
         cert' = cert, NEW c \in Certs, Went(c)'
  PROVE  held'[c] = cert'[c] /\ Good(c)'
<1>1. CASE Went(c) /\ held'[c] = held[c]
  BY <1>1 DEF RestInv, Good
<1>2. CASE Settling(c)
  <2>1. certSeen = cert
    BY DEF CacheInv, Awake
  <2>2. KeepCertificate /\ c = cur
    <3>1. ~(CreateCertificate /\ ~Fail)
      BY <1>2, NewCertForm, WantedForm, NamesAssumption
         DEF Settling, CreateCertificate, CoreInv, Shape
    <3>2. ~Fail
      BY DEF Fail, Return, Awake
    <3> QED BY <1>2, <3>1, <3>2 DEF Settling
  <2>3. want = None
    BY <2>2 DEF RestInv, KeepCertificate, Step, Visits
  <2>4. held'[c] = cert[c] /\ cert[c] # None /\ cert[c].spec = Desired(c)
    BY <2>1, <2>2, <2>3 DEF KeepCertificate, Hold, Wanted, CoreInv, Shape
  <2> QED BY <2>4 DEF Good, Desired
<1> QED BY <1>1, <1>2, Onward

\* A spec is asked for in a visit only after a certificate was deleted, and that is announced.
LEMMA RestWant ==
  ASSUME CoreInv, CoreInv', CacheInv, CacheInv', [Next]_vars, ~Awake, ~Awake', RestInv,
         cert' = cert, pc' \in Visits
  PROVE  want' = None
<1>1. ~RecreateCertificate
  <2> SUFFICES ASSUME RecreateCertificate PROVE FALSE
    OBVIOUS
  <2>1. certSeen = cert
    BY DEF CacheInv, Awake
  <2>2. cur \in Certs
    BY DEF RecreateCertificate, Step, CoreInv, Where, Visits
  <2> QED BY <2>1, <2>2 DEF RecreateCertificate, CoreInv, Shape
<1>2. CASE KeepCertificate \/ CreateCertificate
  BY <1>2 DEF KeepCertificate, CreateCertificate, Fail, Return, Forget
<1>3. CASE ReadCAIssuer \/ DeleteChainCert
  BY <1>3 DEF ReadCAIssuer, DeleteChainCert, Visits
<1>4. CASE ~KeepCertificate /\ ~CreateCertificate /\ ~ReadCAIssuer /\ ~DeleteChainCert
  BY <1>1, <1>4, Elsewhere DEF RestInv
<1> QED BY <1>2, <1>3, <1>4

\* The CA that is copied is the one that the Route gets.
LEMMA TrustedStays ==
  ASSUME CoreInv, [Next]_vars, ~Awake', ~Reconcile, HasCA \/ pc = "idle", HasCA' \/ pc' = "idle"
  PROVE  TrustedCA' = TrustedCA
<1>1. Goes(None) /\ ~Fail
  BY Quiet
<1>2. CASE pc' = "idle"
  <2>1. CASE pc = "idle" /\ UNCHANGED <<crVars, unready>>
    BY <1>2, <2>1 DEF TrustedCA, crVars
  <2>2. CASE ReconcileRoute
    BY <1>2, <2>2 DEF TrustedCA, ReconcileRoute
  <2> QED BY <1>1, <1>2, <2>1, <2>2 DEF Goes
<1>3. CASE pc' # "idle"
  <2>1. ~ReadCA
    BY <1>1 DEF ReadCA, Step, HasCA, Ends, InNamespaces, Visits
  <2>2. HasCA /\ caBytes' = caBytes
    BY <1>3, <2>1, Progress
  <2>3. pc # "idle"
    BY <2>2 DEF HasCA, Ends, InNamespaces, Visits
  <2> QED BY <1>3, <2>2, <2>3 DEF TrustedCA
<1> QED BY <1>2, <1>3

\* Who notes that the cache lags.
LEMMA Noted ==
  ASSUME CoreInv, [Next]_vars, ~Reconcile, NEW c, c \notin lagged'
  PROVE  \/ c \notin lagged
         \/ ReadCA /\ c = "ca"
         \/ CopyAgentSecret /\ c = cur
<1>1. CASE Forget
  BY <1>1 DEF Forget
<1>2. CASE Fail
  BY <1>1, <1>2 DEF Fail, Return
<1>3. CASE UNCHANGED readVars
  BY <1>3 DEF readVars
<1>4. CASE Worker /\ ~ReadCA /\ ~CopyAgentSecret
  BY <1>1, <1>2, <1>3, <1>4 DEF Worker, CreateSelfSignedIssuer, KeepCertificate,
     CreateCertificate, RecreateCertificate, DeleteCertSecret, ReadCAIssuer, DeleteChainCert,
     DeleteChainSecret, UpdateCAIssuer, CreateKeystoreSecret, CopyCASecret, SetCertSecretOwner,
     OwnerRefused, CertsNotReady, AllCertsReady, ReconcileRoute, Return
<1>5. CASE ReadCA
  BY <1>2, <1>3, <1>5 DEF ReadCA, Note
<1>6. CASE CopyAgentSecret
  BY <1>2, <1>6 DEF CopyAgentSecret, Note
<1>7. CASE ~Worker
  BY <1>1, <1>3, <1>7, Passive DEF localVars
<1> QED BY <1>4, <1>5, <1>6, <1>7

\* A content that the certificate's status tells of is not new.
LEMMA KnownStays ==
  ASSUME CoreInv, [Next]_vars, cert' = cert, NEW c \in Certs, Good(c), Known(c)'
  PROVE  Known(c) /\ Content(secret'[NewSecret(c)]) = Content(secret[NewSecret(c)])
<1> DEFINE n == SecretName(c, "new")
<1>1. n \in CANames \union Leaves /\ SecretName(c, cert[c].spec) = n /\ NewSecret(c) = Home(n)
  <2>1. CASE c = "ca"
    BY <2>1, SecretNames, CertNames DEF Good, CANames, NewSecret
  <2>2. CASE c \in Leaves
    BY <2>2, SecretNames DEF NewSecret
  <2> QED BY <2>1, <2>2, CertNames
<1> HIDE DEF n
<1>2. cert[c].rev \in Revs(n)
  <2> DEFINE U(x) == {x[s].rev : s \in {t \in Present(x) : t[2] = n}}
             V(x) == {x[d].rev : d \in {e \in Present(x) : SecretName(e, x[e].spec) = n}}
             A == {U(x) : x \in {secret, secretSeen}}
             B == {V(x) : x \in {cert, certSeen}}
  <2>1. Revs(n) = (UNION A) \union (UNION B)
    BY DEF Revs
  <2>2. c \in {e \in Present(cert) : SecretName(e, cert[e].spec) = n}
    BY <1>1 DEF Present, Good, CoreInv, Shape
  <2>3. cert[c].rev \in V(cert)
    BY <2>2
  <2>4. V(cert) \in B
    OBVIOUS
  <2> HIDE DEF A, B, V
  <2>5. cert[c].rev \in UNION B
    BY <2>3, <2>4
  <2> QED BY <2>1, <2>5
<1>3. secret'[Home(n)] # None /\ secret'[Home(n)].rev = cert[c].rev
  BY <1>1 DEF Known, NewSecret
<1>4. secret'[Home(n)].rev # Fresh(Revs(n))
  BY <1>2, <1>3, FreshRev DEF CoreInv
<1>5. secret[Home(n)] # None /\ Content(secret'[Home(n)]) = Content(secret[Home(n)])
  BY <1>1, <1>3, <1>4, CertificateSecret
<1>6. secret'[Home(n)].rev = secret[Home(n)].rev
  BY <1>5 DEF Content
<1> QED BY <1>1, <1>3, <1>5, <1>6 DEF Known

\* The copies of a namespace that a reconcile leaves behind.
LEMMA RestCopies ==
  ASSUME CoreInv, CoreInv', CacheInv, [Next]_vars, ~Awake, ~Awake', ~Reconcile, RestInv,
         \A s \in Secrets : s[1] # InstallNamespace => secret'[s] = secret[s],
         NEW ns \in Remote
  PROVE  /\ CAVisited(ns)' => CopiedCA(ns)'
         /\ AgentVisited(ns)' => unready' \/ secret'[<<ns, ns>>] # None
<1>1. Goes(ns) /\ ~Fail
  BY Quiet
<1>3. /\ <<ns, "caNew">> \in Secrets /\ <<ns, ns>> \in Secrets /\ ns # InstallNamespace
      /\ \A n \in {"caNew", ns} : /\ secret'[<<ns, n>>] = secret[<<ns, n>>]
                                  /\ secretSeen[<<ns, n>>] = secret[<<ns, n>>]
  BY Copies DEF CANames, CacheInv, Awake
<1>4. ASSUME CAVisited(ns)' PROVE CopiedCA(ns)'
  <2>1. CASE CAVisited(ns)
    <3>1. CopiedCA(ns)
      BY <2>1 DEF RestInv
    <3>2. (HasCA \/ pc = "idle") /\ (HasCA' \/ pc' = "idle")
      BY <1>4, <2>1 DEF CAVisited, HasCA
    <3>3. TrustedCA' = TrustedCA
      BY <3>2, TrustedStays
    <3> QED BY <1>3, <3>1, <3>3 DEF CopiedCA
  <2>2. CASE CopyCASecret /\ cur = ns
    <3>1. pc = "caCopy" /\ CopyTo(<<ns, SecretName("ca", held["ca"].spec)>>, CACopy)
          /\ pc' = "cert" /\ caBytes' = caBytes
      BY <1>1, <1>3, <2>2 DEF CopyCASecret, Step, readVars
    <3>2. Went("ca")
      BY <3>1 DEF Went, Visits
    <3>3. IsNew(held["ca"])
      BY <3>2, CertNames DEF RestInv, Good, IsNew
    <3>5. CopyTo(<<ns, "caNew">>, CACopy)
      BY <3>1, <3>3, SecretNames DEF IsNew
    <3>6. secret'[<<ns, "caNew">>] = CACopy
      BY <1>3, <3>5 DEF CopyTo, CoreInv, Shape
    <3>7. CACopy \in SecretType /\ CACopy.ca = caBytes
      BY DEF CACopy, SecretType, Nobody, CoreInv, Shape
    <3>8. CACopy # None
      BY <3>7, NamesAssumption
    <3> HIDE DEF CACopy
    <3> QED BY <3>1, <3>6, <3>7, <3>8 DEF CopiedCA, TrustedCA
  <2> QED BY <1>1, <1>4, <2>1, <2>2 DEF Goes
<1>5. ASSUME AgentVisited(ns)' PROVE unready' \/ secret'[<<ns, ns>>] # None
  <2>1. CASE AgentVisited(ns)
    BY <1>1, <1>3, <2>1 DEF RestInv, Goes
  <2>2. CASE CopyAgentSecret /\ cur = ns
    <3> DEFINE x == [CertSecret(cur) EXCEPT !.owner = Nobody]
    <3>1. pc = "agentCopy"
          /\ (unready' \/ (CertSecret(cur) # None /\ CopyTo(<<ns, ns>>, x)))
      BY <1>1, <1>3, <2>2 DEF CopyAgentSecret, Step
    <3>2. CASE CertSecret(cur) # None /\ CopyTo(<<ns, ns>>, x)
      <4>1. CertSecret(cur) \in SecretType
        BY <2>2, <3>2, CertSecretForm, CertNames, Objects
      <4>2. x \in SecretType
        BY <4>1 DEF SecretType, Nobody
      <4>3. x # None
        BY <4>2, NamesAssumption
      <4> HIDE DEF x
      <4> QED BY <1>3, <3>2, <4>3 DEF CopyTo, CoreInv, Shape
    <3> QED BY <3>1, <3>2
  <2> QED BY <1>1, <1>5, <2>1, <2>2 DEF Goes
<1> QED BY <1>4, <1>5

\* The agent's copy has the content that was present when its cache did not lag.
LEMMA RestAgent ==
  ASSUME CoreInv, CoreInv', CacheInv, [Next]_vars, ~Awake, ~Awake', ~Reconcile, RestInv,
         cert' = cert,
         \A s \in Secrets : s[1] # InstallNamespace => secret'[s] = secret[s],
         NEW ns \in Remote
  PROVE  AgentFresh(ns)'
<1>1. Goes(ns) /\ ~Fail
  BY Quiet
<1>2. /\ <<ns, ns>> \in Secrets /\ ns # InstallNamespace
      /\ secret'[<<ns, ns>>] = secret[<<ns, ns>>] /\ secretSeen[<<ns, ns>>] = secret[<<ns, ns>>]
      /\ ns \in Certs /\ ns \in Namespaces /\ ns \in Leaves /\ NewSecret(ns) = Home(ns)
  BY Copies, CertNames, SecretNames DEF NewSecret, CacheInv, Awake
<1> SUFFICES ASSUME AgentVisited(ns)', ~unready', ns \notin lagged', Known(ns)'
             PROVE  Content(secret'[<<ns, ns>>]) = Content(secret'[Home(ns)])
  BY DEF AgentFresh
<1>3. CASE CopyAgentSecret /\ cur = ns
  <2> DEFINE x == [CertSecret(cur) EXCEPT !.owner = Nobody]
  <2>1. CertSecret(ns) # None /\ CopyTo(<<ns, ns>>, x) /\ Note(ns)
    BY <1>1, <1>2, <1>3 DEF CopyAgentSecret
  <2>2. CertSecret(ns) \in SecretType
    BY <1>2, <2>1, CertSecretForm, Objects
  <2>3. Content(x) = Content(CertSecret(ns))
    BY <1>3, <2>2 DEF Content, SecretType
  <2>4. ServerSecret(ns) # None /\ Content(CertSecret(ns)) = Content(ServerSecret(ns))
    BY <2>1 DEF Note
  <2>5. ServerSecret(ns) = secret[Home(ns)]
    BY <1>2, SecretNames DEF ServerSecret
  <2> HIDE DEF x
  <2>6. secret'[Home(ns)] = secret[Home(ns)]
    <3>1. <<ns, ns>> # Home(ns)
      BY Copies
    <3> QED BY <2>1, <3>1 DEF CopyTo, CoreInv, Shape
  <2>7. secret'[<<ns, ns>>] = x
    BY <1>2, <2>1 DEF CopyTo, CoreInv, Shape
  <2> QED BY <2>3, <2>4, <2>5, <2>6, <2>7
<1>4. CASE ~(CopyAgentSecret /\ cur = ns)
  <2>1. AgentVisited(ns) /\ ~unready
    BY <1>1, <1>2, <1>4 DEF Goes
  <2>2. ns \notin lagged
    BY <1>2, <1>4, Noted, CertNames
  <2>3. Good(ns)
    <3>1. Went(ns) \/ pc = "idle"
      BY <1>2, <2>1 DEF AgentVisited, Went
    <3> QED BY <1>2, <3>1 DEF RestInv
  <2>4. Known(ns) /\ Content(secret'[Home(ns)]) = Content(secret[Home(ns)])
    BY <1>2, <2>3, KnownStays
  <2> QED BY <1>2, <2>1, <2>2, <2>4 DEF RestInv, AgentFresh
<1> QED BY <1>3, <1>4

\* The same for the CA.
LEMMA RestCA ==
  ASSUME CoreInv, CoreInv', [Next]_vars, ~Awake, ~Awake', ~Reconcile, RestInv, cert' = cert
  PROVE  CAFresh'
<1>1. Goes(None) /\ ~Fail
  BY Quiet
<1>2. NewSecret("ca") = Root
  BY SecretNames DEF NewSecret, Root
<1> SUFFICES ASSUME HasCA' \/ pc' = "idle", "ca" \notin lagged', Known("ca")'
             PROVE  TrustedCA' = secret'[Root].ca
  BY DEF CAFresh, Root, Home
<1>3. CASE ReadCA
  <2>1. pc = "caBytes" /\ pc' # "waiting" /\ pc' # "idle"
    BY <1>1, <1>3 DEF ReadCA, Step, HasCA, Ends, InNamespaces, Visits, VisitNamespaces
  <2>2. secret' = secret /\ caBytes' = CertSecret("ca").ca /\ Note("ca")
    BY <1>1, <1>3, <2>1 DEF ReadCA, serverVars
  <2>3. Content(CertSecret("ca")) = Content(ServerSecret("ca"))
    BY <2>2 DEF Note
  <2>4. Went("ca")
    BY <2>1 DEF Went, Visits
  <2>5. IsNew(held["ca"])
    BY <2>4, CertNames DEF RestInv, Good, IsNew
  <2>6. ServerSecret("ca") = secret[Root]
    BY <2>5, SecretNames DEF ServerSecret, IsNew, Root
  <2>7. CertSecret("ca").ca = secret[Root].ca
    BY <2>3, <2>6 DEF Content
  <2> QED BY <2>1, <2>2, <2>7 DEF TrustedCA
<1>4. CASE ~ReadCA
  <2>1. HasCA \/ pc = "idle"
    <3>1. CASE HasCA'
      BY <1>4, <3>1, Progress
    <3>2. CASE pc' = "idle"
      BY <1>1, <3>2 DEF Goes, ReconcileRoute, HasCA, Ends
    <3> QED BY <3>1, <3>2
  <2>2. "ca" \notin lagged
    <3>1. ~(CopyAgentSecret /\ "ca" = cur)
      BY <1>1, CertNames DEF CopyAgentSecret, Step, CoreInv, Where, InNamespaces
    <3> QED BY <1>4, <3>1, Noted
  <2>3. Good("ca")
    <3>1. HasCA => Went("ca")
      BY CertNames DEF HasCA, Went, InNamespaces, Visits, Ends, CoreInv, Where
    <3> QED BY <2>1, <3>1, CertNames DEF RestInv
  <2>4. Known("ca") /\ Content(secret'[Root]) = Content(secret[Root])
    BY <1>2, <2>3, CertNames, KnownStays
  <2>5. TrustedCA' = TrustedCA
    BY <2>1, TrustedStays
  <2>6. TrustedCA = secret[Root].ca
    BY <2>1, <2>2, <2>4 DEF RestInv, CAFresh
  <2> QED BY <2>4, <2>5, <2>6 DEF Content
<1> QED BY <1>3, <1>4

\* Every certificate is ready when a reconcile ends well.
LEMMA RestReady ==
  ASSUME CoreInv, CoreInv', CacheInv, [Next]_vars, ~Awake, ~Awake', ~Reconcile, RestInv,
         cert' = cert
  PROVE  /\ pc' = "owners" => \A c \in Certs \ todo' : cert'[c].ready
         /\ pc' = "route" => condition' = "Ready" /\ \A c \in Certs : cert'[c].ready
<1>1. ~Fail /\ Goes(None)
  BY Quiet
<1>2. CASE SetCertSecretOwner
  <2> DEFINE c == NextOwner
  <2>1. pc = "owners" /\ todo # {}
        /\ (pc' = "waiting" \/ (pc' = "owners" /\ held[c].ready /\ todo' = todo \ {c}))
    BY <1>2 DEF SetCertSecretOwner, Step, Owned
  <2>2. c \in Certs
    BY <2>1, NextOwnerForm
  <2>3. held[c] = cert[c]
    BY <2>1, <2>2 DEF RestInv, Went, Ends
  <2> HIDE DEF c
  <2> QED BY <2>1, <2>3 DEF RestInv
<1>3. CASE AllCertsReady
  BY <1>3 DEF AllCertsReady, RestInv
<1>4. CASE ReadCA \/ CopyAgentSecret
  BY <1>1, <1>4 DEF ReadCA, CopyAgentSecret, VisitNamespaces
<1>5. CASE ~SetCertSecretOwner /\ ~AllCertsReady /\ ~ReadCA /\ ~CopyAgentSecret
  <2>1. pc' \in {"owners", "route"} => UNCHANGED <<pc, todo>>
    <3>1. CASE KeepCertificate \/ CreateCertificate
      BY <1>1, <3>1 DEF KeepCertificate, CreateCertificate, Step, AfterCert, VisitCerts,
         CoreInv, Where, Visits, Certs, Leaves
    <3>2. CASE Worker /\ ~KeepCertificate /\ ~CreateCertificate
      BY <1>1, <1>5, <3>2 DEF Worker, Reconcile, CreateSelfSignedIssuer, RecreateCertificate,
         DeleteCertSecret, ReadCAIssuer, DeleteChainCert, DeleteChainSecret, UpdateCAIssuer,
         CreateKeystoreSecret, CopyCASecret, OwnerRefused, CertsNotReady, ReconcileRoute,
         VisitCerts, Return, Forget
    <3>3. CASE ~Worker
      BY <3>3, Passive DEF Forget, localVars
    <3> QED BY <3>1, <3>2, <3>3
  <2> QED BY <1>1, <1>5, <2>1 DEF RestInv, Goes
<1> QED BY <1>2, <1>3, <1>4, <1>5

\* The end of a reconcile that nothing has disturbed.
LEMMA RestEnd ==
  ASSUME CoreInv, CoreInv', AnchorInv, [Next]_vars,
         ~Awake, ~Awake', ~Reconcile, RestInv, cert' = cert, issuer' = issuer, pc' = "idle"
  PROVE  /\ condition' = "Ready" /\ ~unready'
         /\ \A c \in Certs : Good(c)' /\ cert'[c].ready
         /\ issuer' = [self |-> TRUE, ca |-> "caNew"]
         /\ route'[1] = "caNew"
<1>1. Goes(None)
  BY Quiet
<1>3. CASE pc = "idle" /\ UNCHANGED <<crVars, unready>>
  BY <1>3 DEF RestInv, Good, crVars
<1>4. CASE ReconcileRoute
  <2>1. pc = "route" /\ route' = caBytes /\ condition' = condition /\ unready' = FALSE
    BY <1>4 DEF ReconcileRoute, Return, Forget
  <2>2. \A c \in Certs : held[c] = cert[c] /\ Good(c) /\ cert[c].ready
    BY <2>1 DEF RestInv, Went, Ends
  <2>3. IsNew(held["ca"])
    BY <2>2, CertNames DEF Good, IsNew
  <2>4. issuer.self /\ issuer.ca = "caNew" /\ caBytes[1] = "caNew"
    BY <2>1, <2>3 DEF RestInv, AnchorInv, Begun, PastIssuer, HasCA, Ends
  <2>5. issuer = [self |-> TRUE, ca |-> "caNew"]
    BY <2>4 DEF CoreInv, Shape, IssuerType
  <2> QED BY <2>1, <2>2, <2>4, <2>5 DEF RestInv, Good
<1> QED BY <1>1, <1>3, <1>4 DEF Goes

\* Every step keeps RestInv.
LEMMA RestStep ==
  ASSUME CoreInv, CoreInv', CacheInv, CacheInv', AnchorInv, RestInv, [Next]_vars
  PROVE  RestInv'
<1> SUFFICES ASSUME ~Awake' PROVE RestInv'
  BY DEF RestInv
<1>1. CASE Reconcile
  <2>1. pc' = "selfSigned"
    BY <1>1 DEF Reconcile
  <2> QED BY <2>1 DEF RestInv, Went, Begun, CAVisited, AgentVisited, InNamespaces, Visits, Ends,
          CAFresh, AgentFresh, HasCA
<1>2. CASE ~Reconcile
  <2>1. /\ ~Awake /\ cert' = cert /\ issuer' = issuer
        /\ \A s \in Secrets : s[1] # InstallNamespace => secret'[s] = secret[s]
    BY <1>2, Asleep
  <2>2. \A c \in Certs : Went(c)' => held'[c] = cert'[c] /\ Good(c)'
    BY <2>1, RestVisit
  <2>3. pc' \in Visits => want' = None
    BY <2>1, RestWant
  <2>4. \A ns \in Remote : /\ CAVisited(ns)' => CopiedCA(ns)'
                           /\ AgentVisited(ns)' => unready' \/ secret'[<<ns, ns>>] # None
    BY <1>2, <2>1, RestCopies
  <2>8. CAFresh' /\ \A ns \in Remote : AgentFresh(ns)'
    BY <1>2, <2>1, RestCA, RestAgent
  <2>5. Begun' => issuer'.self
    <3>1. Goes(None) /\ ~Fail
      BY <1>2, Quiet
    <3>2. CASE CreateSelfSignedIssuer
      BY <3>1, <3>2 DEF CreateSelfSignedIssuer, CoreInv, Shape, IssuerType
    <3> QED BY <2>1, <3>1, <3>2 DEF Goes, RestInv
  <2>6. /\ pc' = "owners" => \A c \in Certs \ todo' : cert'[c].ready
        /\ pc' = "route" => condition' = "Ready" /\ \A c \in Certs : cert'[c].ready
    BY <1>2, <2>1, RestReady
  <2>7. pc' = "idle" => /\ condition' = "Ready" /\ ~unready'
                        /\ \A c \in Certs : Good(c)' /\ cert'[c].ready
                        /\ issuer' = [self |-> TRUE, ca |-> "caNew"]
                        /\ route'[1] = "caNew"
    BY <1>2, <2>1, RestEnd
  <2> QED BY <2>2, <2>3, <2>4, <2>5, <2>6, <2>7, <2>8 DEF RestInv
<1> QED BY <1>1, <1>2

\* The inductive invariant behind TrustCurrent.
TrustInv == CoreInv /\ CacheInv /\ AnchorInv /\ RestInv

\* Caches, what the new CA has signed, and what a quiet reconcile leaves behind.
THEOREM TrustInvariance == Spec => []TrustInv
<1>1. Init => TrustInv
  <2> SUFFICES ASSUME Init PROVE TrustInv
    OBVIOUS
  <2>1. CacheInv /\ RestInv
    BY DEF Init, CacheInv, RestInv, Awake
  <2> QED BY <2>1, InitCore, AnchorInit DEF TrustInv
<1>2. TrustInv /\ [Next]_vars => TrustInv'
  <2> SUFFICES ASSUME TrustInv, [Next]_vars PROVE TrustInv'
    OBVIOUS
  <2>1. CoreInv' /\ CacheInv'
    BY NextCore, CacheStep DEF TrustInv
  <2>2. AnchorInv'
    BY <2>1, AnchorStep DEF TrustInv
  <2>3. RestInv'
    BY <2>1, RestStep DEF TrustInv
  <2> QED BY <2>1, <2>2, <2>3 DEF TrustInv
<1> QED BY <1>1, <1>2, PTL DEF Spec

\* Whatever an older version left behind, wherever caches lag, calls fail and certificates,
\* the CA's among them, are renewed or lose their secrets: at rest the certificates have the
\* operator's specs, the Route and the copies trust one CA of the new name, and what was read
\* from a cache that did not lag is the present content.
THEOREM TrustIsCurrent == Spec => []TrustCurrent
<1>1. TrustInv => TrustCurrent
  <2> SUFFICES ASSUME TrustInv, Settled PROVE TrustCurrent
    BY DEF TrustCurrent
  <2>1. pc = "idle" /\ ~Awake
    BY DEF Settled, AtRest, Awake
  <2>2. RestInv
    BY DEF TrustInv
  <2>3. /\ condition = "Ready" /\ ~unready
        /\ \A c \in Certs : Good(c) /\ cert[c].ready
        /\ issuer = [self |-> TRUE, ca |-> "caNew"]
        /\ route[1] = "caNew"
    BY <2>1, <2>2 DEF RestInv
  <2>4. ASSUME NEW c \in {"ca"} \union Namespaces PROVE c \in Certs /\ Known(c)
    <3>1. c \in Certs /\ c \notin Keystores
      BY CertNames, ConstantsAssumption
    <3>2. cert[c] # None /\ cert[c].spec = "new" /\ Issued(c) /\ StatusOf(c) = cert[c]
      BY <2>3, <3>1 DEF Settled, Good
    <3>3. SecretOf(c) = NewSecret(c) /\ secret[NewSecret(c)] # None
      BY <3>2 DEF SecretOf, NewSecret, Issued
    <3>4. cert[c] \in CertType
      BY <3>1, <3>2, Objects DEF TrustInv, CoreInv, Shape
    <3>5. StatusOf(c).rev = secret[SecretOf(c)].rev
      BY <3>2, <3>4 DEF StatusOf, CertType
    <3> QED BY <3>1, <3>2, <3>3, <3>5 DEF Known
  <2>5. "ca" \notin lagged => route = CurrentCA
    BY <2>1, <2>2, <2>4 DEF RestInv, CAFresh, TrustedCA, CurrentCA, Root
  <2>6. ASSUME NEW ns \in Remote
        PROVE  /\ secret[<<ns, "caNew">>] # None /\ secret[<<ns, "caNew">>].ca = route
               /\ secret[<<ns, ns>>] # None
               /\ ns \notin lagged => Content(secret[<<ns, ns>>]) = Content(secret[Home(ns)])
    <3>1. CAVisited(ns) /\ AgentVisited(ns)
      BY <2>1 DEF CAVisited, AgentVisited
    <3>2. CopiedCA(ns) /\ secret[<<ns, ns>>] # None /\ AgentFresh(ns)
      BY <2>1, <2>2, <2>3, <3>1 DEF RestInv
    <3>3. Known(ns)
      BY <2>4, CertNames
    <3> QED BY <2>1, <2>3, <3>1, <3>2, <3>3 DEF CopiedCA, TrustedCA, AgentFresh
  <2> QED BY <2>3, <2>5, <2>6 DEF TrustCurrent, Good
<1> QED BY <1>1, TrustInvariance, PTL

-----------------------------------------------------------------------------
(* What the previous CA signed.                                            *)

\* As long as the CA issuer names another CA, the operator knows this and every
\* certificate that is there; it lists them all and deletes them with their secrets.
\* Then, unless it was interrupted there, the new CA has signed all there is.
ChainInv ==
  /\ issuer.ca # "caNew" =>
       /\ issuerSeen.ca = issuer.ca
       /\ \A c \in Leaves : cert[c] # None => certSeen[c] # None /\ issuer.ca # None
       /\ pc \in {"chainCert", "chainSecret", "issuerUpdate"} =>
            \A c \in Leaves : cert[c] # None => \E x \in chain : x[1] = c
       /\ ~interrupted =>
            \A c \in Components : cert[c] # None \/ secret[Home(c)] = None
                                  \/ (pc = "chainSecret" /\ cur = c)
  /\ issuer.ca = "caNew" /\ ~interrupted =>
       \A c \in Components : secret[Home(c)] # None => Signed(secret[Home(c)])

\* A reconcile that is not interrupted deletes the secret after its certificate.
LEMMA Uninterrupted ==
  ASSUME CoreInv, [Next]_vars, ~interrupted'
  PROVE  ~interrupted /\ (pc = "chainSecret" => UNCHANGED <<pc, cur>> \/ DeleteChainSecret)
<1>2. CASE Worker
  <2>1. ~interrupted
    <3>1. interrupted' = interrupted
      BY <1>2 DEF Fail, Worker, Reconcile, CreateSelfSignedIssuer, KeepCertificate,
         CreateCertificate, RecreateCertificate, DeleteCertSecret, ReadCAIssuer,
         DeleteChainCert,
         DeleteChainSecret, UpdateCAIssuer, CreateKeystoreSecret, ReadCA, CopyCASecret,
         CopyAgentSecret, SetCertSecretOwner, OwnerRefused, CertsNotReady, AllCertsReady,
         ReconcileRoute, Step
    <3> QED BY <3>1
  <2>2. pc = "chainSecret" => DeleteChainSecret
    BY <1>2 DEF Worker, Reconcile, CreateSelfSignedIssuer, KeepCertificate, CreateCertificate,
       RecreateCertificate, DeleteCertSecret, ReadCAIssuer, DeleteChainCert, UpdateCAIssuer,
       CreateKeystoreSecret, ReadCA, CopyCASecret, CopyAgentSecret, SetCertSecretOwner,
       OwnerRefused, CertsNotReady, AllCertsReady, ReconcileRoute, Step
  <2> QED BY <2>1, <2>2
<1>3. CASE CallFails \/ Restart
  BY <1>3 DEF CallFails, Restart, Fault
<1>4. CASE UNCHANGED <<localVars, interrupted>>
  BY <1>4 DEF localVars
<1>5. CASE SyncCerts \/ SyncIssuers \/ SyncSecrets \/ Resync
  BY <1>4, <1>5 DEF SyncCerts, SyncIssuers, SyncSecrets, Resync, Outside
<1>6. ASSUME NEW c \in Certs, CertManager(c) \/ GarbageCollect(c)
      PROVE  UNCHANGED <<localVars, interrupted>>
  BY <1>6 DEF CertManager, IssueCertificate, UpdateCertificate, GarbageCollect, Outside
<1>7. CASE Users
  BY <1>4, <1>7 DEF Users, UpgradeCertManager, Renew, DeleteSecret, Edit
<1>8. CASE UNCHANGED vars
  BY <1>4, <1>8 DEF vars
<1> QED BY <1>2, <1>3, <1>4, <1>5, <1>6, <1>7, <1>8 DEF Next

\* While the issuer names another CA, it and the certificates that are there are known.
LEMMA ChainKnown ==
  ASSUME CoreInv, CoreInv', AnchorInv, ChainInv, [Next]_vars, issuer'.ca # "caNew"
  PROVE  /\ issuer.ca = issuer'.ca /\ issuerSeen'.ca = issuer'.ca
         /\ \A c \in Leaves : cert'[c] # None => /\ cert[c] # None
                                                 /\ certSeen'[c] # None /\ issuer'.ca # None
<1>1. issuer.ca = issuer'.ca
  BY IssuerSteps
<1>2. issuerSeen' \in {issuerSeen, issuer} /\ certSeen' \in {certSeen, cert}
  BY Told DEF cacheVars, SyncCerts, SyncIssuers, SyncSecrets, Restart
<1>3. ASSUME NEW c \in Leaves, cert'[c] # None, cert[c] = None PROVE FALSE
  <2>1. c \in Certs /\ c # "ca"
    BY CertNames
  <2>2. pc = "cert" /\ cur = c
    BY <1>3, <2>1, NewCertificate
  <2> QED BY <1>1, <2>1, <2>2 DEF PastIssuer, Visits, AnchorInv
<1> QED BY <1>1, <1>2, <1>3 DEF ChainInv

\* Every certificate that the other CA signed is listed until it is deleted.
LEMMA ChainListed ==
  ASSUME CoreInv, CoreInv', AnchorInv, ChainInv, [Next]_vars, issuer'.ca # "caNew",
         pc' \in {"chainCert", "chainSecret", "issuerUpdate"}, NEW c \in Leaves, cert'[c] # None
  PROVE  \E x \in chain' : x[1] = c
<1>1. /\ issuer.ca = issuer'.ca /\ issuer.ca # "caNew" /\ issuer.ca # None
      /\ issuerSeen.ca = issuer.ca
      /\ cert[c] # None /\ certSeen[c] # None
  BY ChainKnown DEF ChainInv
<1>2. c \in Certs /\ certSeen[c] \in MaybeCert
  BY CertNames DEF CoreInv, Shape
<1>3. CASE ReadCAIssuer
  <2>1. chain' = {<<d, certSeen[d].spec>> : d \in
                    {e \in Present(certSeen) : SecretName(e, certSeen[e].spec) # "caNew"}}
    BY <1>1, <1>3 DEF ReadCAIssuer
  <2>2. c \in Present(certSeen) /\ SecretName(c, certSeen[c].spec) # "caNew"
    BY <1>1, <1>2, SecretNames, CertNames DEF Present, CoreInv, Shape
  <2>3. <<c, certSeen[c].spec>> \in chain'
    BY <2>1, <2>2
  <2> QED BY <2>3
<1>4. CASE DeleteChainCert
  <2>0. pc = "chainCert"
    BY <1>4 DEF DeleteChainCert, Step
  <2>1. PICK y \in chain : cert' = [cert EXCEPT ![y[1]] = None] /\ chain' = chain \ {y}
    BY <1>4 DEF DeleteChainCert
  <2>2. c # y[1]
    BY <1>2, <2>1 DEF CoreInv, Shape
  <2>3. PICK x \in chain : x[1] = c
    BY <1>1, <2>0 DEF ChainInv
  <2> QED BY <2>1, <2>2, <2>3
<1>5. CASE pc \in {"chainCert", "chainSecret", "issuerUpdate"} /\ chain' = chain
  BY <1>1, <1>5 DEF ChainInv
<1>6. CASE DeleteChainSecret
  BY <1>5, <1>6 DEF DeleteChainSecret, Step, readVars
<1>7. CASE ~Worker
  BY <1>5, <1>7, Passive DEF Forget, localVars, readVars
<1>8. CASE Worker /\ ~ReadCAIssuer /\ ~DeleteChainCert /\ ~DeleteChainSecret
  <2>1. ~Forget
    BY DEF Forget
  <2>2. ~Fail
    BY <2>1 DEF Fail, Return
  <2>3. ~KeepCertificate /\ ~CreateCertificate
    <3>1. ASSUME pc = "cert", AfterCert(cur) PROVE FALSE
      <4>1. cur \in Certs
        BY <3>1 DEF CoreInv, Where, Visits
      <4> QED BY <3>1, <4>1, CertNames DEF AfterCert, VisitCerts
    <3> QED BY <2>2, <3>1 DEF KeepCertificate, CreateCertificate, Step
  <2> QED BY <1>8, <2>1, <2>2, <2>3 DEF Worker, Reconcile, CreateSelfSignedIssuer,
       RecreateCertificate, DeleteCertSecret, UpdateCAIssuer, CreateKeystoreSecret, ReadCA,
       CopyCASecret, CopyAgentSecret, SetCertSecretOwner, OwnerRefused, CertsNotReady,
       AllCertsReady, ReconcileRoute, Return, VisitCerts, VisitNamespaces, Owned, Step
<1> QED BY <1>3, <1>4, <1>6, <1>7, <1>8

\* While the issuer names another CA, a component without a certificate has no secret, except
\* between the two deletions.
LEMMA ChainDeleted ==
  ASSUME CoreInv, CoreInv', AnchorInv, ChainInv, [Next]_vars, issuer'.ca # "caNew",
         ~interrupted', NEW c \in Components, cert'[c] = None, secret'[Home(c)] # None
  PROVE  pc' = "chainSecret" /\ cur' = c
<1>1. issuer.ca # "caNew" /\ ~interrupted
  BY ChainKnown, Uninterrupted
<1>2. c \in Certs /\ c \in Leaves /\ c # "ca" /\ Home(c) \in Secrets
  BY CertNames, Homes DEF HomeNames
<1>3. secret[Home(c)] # None \/ cert'[c] # None
  BY <1>2, CertificateSecret DEF IssuedByCA
<1>4. CASE cert[c] = None
  <2>1. pc = "chainSecret" /\ cur = c
    BY <1>1, <1>3, <1>4 DEF ChainInv
  <2>2. ~DeleteChainSecret
    BY <1>2, <2>1, SecretNames DEF DeleteChainSecret, CoreInv, Shape
  <2> QED BY <2>1, <2>2, Uninterrupted
<1>5. CASE cert[c] # None
  <2>1. ~(c = cur /\ RecreateCertificate)
    BY <1>1, <1>2 DEF RecreateCertificate, Step, PastIssuer, Visits, AnchorInv
  <2>2. ~(c = cur /\ CreateCertificate)
    BY <1>5 DEF CreateCertificate, Fail, serverVars
  <2>3. DeleteChainCert
    BY <1>2, <1>5, <2>1, <2>2, CertSteps DEF Same
  <2>4. PICK x \in chain :
          cert' = [cert EXCEPT ![x[1]] = None] /\ cur' = x[1] /\ pc' = "chainSecret"
    BY <2>3 DEF DeleteChainCert
  <2> QED BY <1>2, <1>5, <2>4 DEF CoreInv, Shape
<1> QED BY <1>4, <1>5

\* Once it names the new CA, that one has signed every component's secret.
LEMMA ChainSigned ==
  ASSUME CoreInv, CoreInv', ChainInv, [Next]_vars,
         issuer'.ca = "caNew", ~interrupted', NEW c \in Components, secret'[Home(c)] # None
  PROVE  Signed(secret'[Home(c)])
<1>1. ~interrupted
  BY Uninterrupted
<1>2. CASE issuer.ca = "caNew"
  <2>1. CASE secret[Home(c)] # None /\ Content(secret'[Home(c)]) = Content(secret[Home(c)])
    BY <1>1, <1>2, <2>1 DEF ChainInv, Signed, Content
  <2>2. CASE IssuedByCA(c)
    BY <1>2, <2>2 DEF IssuedByCA, Signed, CoreInv, SecretsOfCAs, CANames
  <2> QED BY <2>1, <2>2, CertificateSecret, CertNames
<1>3. CASE issuer.ca # "caNew"
  <2>1. UpdateCAIssuer
    BY <1>3, IssuerSteps
  <2>2. ~Fail
    BY <1>3 DEF Fail, serverVars
  <2>3. pc = "issuerUpdate" /\ secret' = secret
    BY <2>1, <2>2 DEF UpdateCAIssuer, Step
  <2>4. chain = {}
    BY <2>3 DEF CoreInv, Where
  <2>5. cert[c] = None
    BY <1>3, <2>3, <2>4, CertNames DEF ChainInv
  <2> QED BY <1>1, <1>3, <2>3, <2>5 DEF ChainInv
<1> QED BY <1>2, <1>3

\* Every step keeps ChainInv.
LEMMA ChainStep ==
  ASSUME CoreInv, CoreInv', AnchorInv, ChainInv, [Next]_vars PROVE ChainInv'
<1>1. issuer'.ca # "caNew" =>
        /\ issuerSeen'.ca = issuer'.ca
        /\ \A c \in Leaves : cert'[c] # None => certSeen'[c] # None /\ issuer'.ca # None
        /\ pc' \in {"chainCert", "chainSecret", "issuerUpdate"} =>
             \A c \in Leaves : cert'[c] # None => \E x \in chain' : x[1] = c
        /\ ~interrupted' =>
             \A c \in Components : cert'[c] # None \/ secret'[Home(c)] = None
                                   \/ (pc' = "chainSecret" /\ cur' = c)
  BY ChainKnown, ChainListed, ChainDeleted
<1>2. issuer'.ca = "caNew" /\ ~interrupted' =>
        \A c \in Components : secret'[Home(c)] # None => Signed(secret'[Home(c)])
  BY ChainSigned
<1> QED BY <1>1, <1>2 DEF ChainInv, Signed

\* What an older version has left behind is in the caches.
LEMMA ChainInit == ASSUME Init PROVE ChainInv
<1>1. pc = "idle" /\ certSeen = cert /\ issuerSeen = issuer
  BY DEF Init
<1>2. \A c \in Leaves : /\ c \in Certs /\ Home(c) \in Secrets
                        /\ c \in Components \/ c \in Namespaces
  BY CertNames, Homes DEF HomeNames
<1>3. CASE NothingYet
  <2>1. issuer.ca = None /\ (\A c \in Leaves : cert[c] = None)
        /\ \A c \in Components : secret[Home(c)] = None
    BY <1>2, <1>3, CertNames DEF NothingYet
  <2>2. None # "caNew"
    BY NamesAssumption DEF CANames
  <2> QED BY <1>1, <2>1, <2>2 DEF ChainInv
<1>4. ASSUME NEW o, NEW specs \in [Components -> {"old", "same"}], LeftBehind(o, specs)
      PROVE  ChainInv
  <2>1. issuer.ca = "caOld" /\ None # "caOld"
    BY <1>4, NamesAssumption DEF LeftBehind, CANames
  <2>2. profile \in BOOLEAN
    BY ConstantsAssumption DEF Init
  <2>3. \A c \in Components : cert[c] # None
    BY <1>4, <2>2, OldState
  <2> QED BY <1>1, <2>1, <2>3 DEF ChainInv
<1> QED BY <1>3, <1>4 DEF Init

\* The previous CA's certificates are known until they are gone.
THEOREM ChainInvariance == Spec => []ChainInv
<1>1. Init => ChainInv
  BY ChainInit
<1>2. TrustInv /\ TrustInv' /\ ChainInv /\ [Next]_vars => ChainInv'
  BY ChainStep DEF TrustInv
<1> QED BY <1>1, <1>2, TrustInvariance, PTL DEF Spec

\* When the CA has changed, at rest every certificate is signed under the new CA's name,
\* however often the CA was renewed, unless some reconcile ended between deleting a
\* certificate and deleting its secret (deleteCertChain, recreateCertificate).
THEOREM ChainIsCurrent == Spec => []ChainCurrent
<1>1. TrustInv /\ ChainInv => ChainCurrent
  <2> SUFFICES ASSUME TrustInv, ChainInv, Settled, ~interrupted, NEW c \in Leaves
               PROVE  secret[Home(c)].ca[1] = "caNew"
    BY DEF ChainCurrent
  <2>1. pc = "idle" /\ ~Awake /\ RestInv /\ AnchorInv
    BY DEF Settled, AtRest, Awake, TrustInv
  <2>2. cert[c] # None /\ issuer.ca = "caNew"
    BY <2>1, CertNames DEF RestInv, Good
  <2>3. secret[Home(c)] # None
    BY <2>2, SecretNames, CertNames DEF Settled, Issued, SecretOf
  <2>4. CASE c \in Components
    BY <2>2, <2>3, <2>4 DEF ChainInv, Signed
  <2>5. CASE c \in Namespaces
    <3>1. Home(c) \in AgentSecrets
      BY <2>5, Homes DEF AgentSecrets, HomeNames
    <3> QED BY <2>1, <2>3, <3>1 DEF AnchorInv, AgentsSigned, Signed
  <2> QED BY <2>4, <2>5, CertNames
<1> QED BY <1>1, TrustInvariance, ChainInvariance, PTL
=============================================================================
