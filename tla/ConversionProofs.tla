-------------------------- MODULE ConversionProofs --------------------------
(***************************************************************************)
(* The converters of the two API versions undo each other, for objects of  *)
(* any content.  Each converter from v1beta1 is paired with the one from   *)
(* v1beta2; pairs are built the way the converters are, from copied and    *)
(* renamed fields, nested structs and fields set side by side.             *)
(***************************************************************************)
EXTENDS Conversion, Naturals, SequenceTheorems, TLAPS

\* The names of the fields that are converted.
Names ==
  {"secretName", "certificateKey", "configMapName", "filename", "pvc", "spec",
   "annotations", "labels", "emptyDir", "enabled", "medium", "sizeLimit",
   "serviceType", "coreConfig", "httpPort", "reportsConfig", "ingressSpec",
   "nodeSelector", "tolerations", "affinity", "nodeAffinity", "podAffinity",
   "podAntiAffinity", "replicas", "resources", "subProcessMaxHeapSize",
   "securityOptions", "podSecurityContext", "reportsSecurityContext",
   "schedulingOptions", "targetCacheSize", "targetCacheTTL", "coreResources",
   "dataSourceResources", "grafanaResources", "coreSecurityContext",
   "dataSourceSecurityContext", "grafanaSecurityContext", "builtInDiscoveryDisabled",
   "disableBuiltInDiscovery", "disableBuiltInPortNames", "discoveryPortNames",
   "disableBuiltInPortNumbers", "discoveryPortNumbers", "databaseSecretName",
   "deploymentMetadata", "podMetadata", "enableCertManager", "trustedCertSecrets",
   "eventTemplates", "storageOptions", "serviceOptions", "networkOptions",
   "reportOptions", "jmxCacheOptions", "targetConnectionCacheOptions",
   "targetDiscoveryOptions", "jmxCredentialsDatabaseOptions", "databaseOptions",
   "operandMetadata", "applicationUrl", "conditions"}

\* The paths of fields, and those that begin with a name in H.
Paths == Seq(Names) \ {<< >>}
Under(H) == {p \in Paths : p[1] \in H}

\* T and F make the same assignments in opposite directions, between fields under
\* the names in G, and no two of the assignments of one have a field in common.
Pair(T, F, G) ==
  /\ T \union F \subseteq [from : Under(G), to : Under(G)]
  /\ \A p, q : Assign(p, q) \in T <=> Assign(q, p) \in F
  /\ \A p, q, r : Assign(p, q) \in T /\ Assign(p, r) \in T => q = r
  /\ \A p, q, r : Assign(q, p) \in T /\ Assign(r, p) \in T => q = r

-----------------------------------------------------------------------------
(* Paths.                                                                  *)

\* A path of one name begins with it.
LEMMA ShortPath ==
  ASSUME NEW n \in Names PROVE Field(n) \in Under({n})
<1>1. Append(<< >>, n) \in Seq(Names)
  BY EmptySeq, AppendProperties
<1>2. Append(<< >>, n) = <<n>>
  OBVIOUS
<1>3. <<n>>[1] = n /\ <<n>> # << >>
  OBVIOUS
<1> QED BY <1>1, <1>2, <1>3 DEF Paths, Under, Field

\* The path of a field of a nested struct begins with the name of the struct, is
\* not that of the struct itself, and leads to one field of the struct only.
LEMMA LongPath ==
  ASSUME NEW n \in Names, NEW p \in Paths
  PROVE  /\ Inside(n, p) \in Under({n}) /\ Inside(n, p) # Field(n)
         /\ Tail(Inside(n, p)) = p
<1>1. p \in Seq(Names) /\ Len(p) \in Nat \ {0}
  BY EmptySeq DEF Paths
<1>2. Field(n) \in Seq(Names)
  BY ShortPath DEF Paths, Under
<1>3. Len(Field(n)) = 1
  BY DEF Field
<1>4. /\ Field(n) \o p \in Seq(Names) /\ Len(Field(n) \o p) = 1 + Len(p)
      /\ (Field(n) \o p)[1] = Field(n)[1]
  <2>1. /\ Field(n) \o p \in Seq(Names)
        /\ Len(Field(n) \o p) = Len(Field(n)) + Len(p)
        /\ \A i \in 1 .. Len(Field(n)) + Len(p) : (Field(n) \o p)[i] =
             IF i <= Len(Field(n)) THEN Field(n)[i] ELSE p[i - Len(Field(n))]
    BY <1>1, <1>2, ConcatProperties
  <2>2. 1 \in 1 .. Len(Field(n)) + Len(p) /\ 1 <= Len(Field(n))
    BY <1>1, <1>3
  <2>3. (Field(n) \o p)[1] = Field(n)[1]
    BY <2>1, <2>2, Zenon
  <2> QED BY <1>1, <1>3, <2>1, <2>3
<1>5. Field(n)[1] = n
  BY DEF Field
<1>6. Tail(<<n>> \o p) = p
  BY <1>1
<1>7. Len(Field(n) \o p) # 0 /\ Len(Field(n) \o p) # Len(Field(n))
  BY <1>1, <1>3, <1>4
<1>8. Field(n) \o p # << >> /\ Field(n) \o p # Field(n)
  BY <1>7, EmptySeq
<1>9. Field(n) \o p = Inside(n, p)
  BY DEF Field, Inside
<1>10. Inside(n, p) \in Under({n})
  BY <1>4, <1>5, <1>8, <1>9 DEF Paths, Under
<1> QED BY <1>6, <1>8, <1>9, <1>10 DEF Inside

-----------------------------------------------------------------------------
(* How pairs are built.                                                    *)

\* Fields assigned to fields with the same names.
LEMMA CopyPair ==
  ASSUME NEW N \in SUBSET Names PROVE Pair(Copy(N), Copy(N), N)
<1>1. Fields(N) \subseteq Under(N)
  BY ShortPath DEF Fields, Under
<1>2. \A p, q : Assign(p, q) \in Copy(N) <=> p = q /\ p \in Fields(N)
  BY DEF Copy, Assign
<1>3. Copy(N) \subseteq [from : Under(N), to : Under(N)]
  BY <1>1 DEF Copy, Assign
<1> QED BY <1>2, <1>3 DEF Pair

\* A field assigned to a field with another name.
LEMMA RenamePair ==
  ASSUME NEW f \in Names, NEW g \in Names PROVE Pair(Rename(f, g), Rename(g, f), {f, g})
<1>1. Field(f) \in Under({f, g}) /\ Field(g) \in Under({f, g})
  BY ShortPath DEF Under
<1>2. \A p, q : Assign(p, q) \in Rename(f, g) <=> Assign(q, p) \in Rename(g, f)
  BY DEF Rename, Assign
<1>3. Rename(f, g) \union Rename(g, f) \subseteq [from : Under({f, g}), to : Under({f, g})]
  BY <1>1 DEF Rename, Assign
<1>4. \A p, q, r : Assign(p, q) \in Rename(f, g) /\ Assign(p, r) \in Rename(f, g) => q = r
  BY DEF Rename, Assign
<1>5. \A p, q, r : Assign(q, p) \in Rename(f, g) /\ Assign(r, p) \in Rename(f, g) => q = r
  BY DEF Rename, Assign
<1> QED BY <1>2, <1>3, <1>4, <1>5 DEF Pair

\* Converters of fields under different names, side by side.
LEMMA SidePair ==
  ASSUME NEW T, NEW F, NEW G, Pair(T, F, G), NEW U, NEW E, NEW H, Pair(U, E, H),
         G \intersect H = {}
  PROVE  Pair(T \union U, F \union E, G \union H)
<1>1. /\ T \union F \subseteq [from : Under(G), to : Under(G)]
      /\ U \union E \subseteq [from : Under(H), to : Under(H)]
  BY DEF Pair
<1>2. \A p, q : Assign(p, q) \in T \union U <=> Assign(q, p) \in F \union E
  BY DEF Pair
<1>3. \A p, q : Assign(p, q) \in T => p \in Under(G) /\ q \in Under(G)
  BY <1>1 DEF Assign
<1>4. \A p, q : Assign(p, q) \in U => p \in Under(H) /\ q \in Under(H)
  BY <1>1 DEF Assign
<1>5. Under(G) \intersect Under(H) = {} /\ Under(G) \union Under(H) = Under(G \union H)
  BY DEF Under
<1>6. (T \union U) \union (F \union E) \subseteq [from : Under(G \union H), to : Under(G \union H)]
  BY <1>1, <1>5
<1>7. \A p, q, r : Assign(p, q) \in T \union U /\ Assign(p, r) \in T \union U => q = r
  BY <1>3, <1>4, <1>5 DEF Pair
<1>8. \A p, q, r : Assign(q, p) \in T \union U /\ Assign(r, p) \in T \union U => q = r
  BY <1>3, <1>4, <1>5 DEF Pair
<1> QED BY <1>2, <1>6, <1>7, <1>8 DEF Pair

\* The assignments of a converter of a nested struct.
LEMMA NestValues ==
  ASSUME NEW f \in Names, NEW g \in Names, NEW C,
         C \subseteq [from : Paths, to : Paths], NEW p, NEW q
  PROVE  Assign(p, q) \in NestAs(f, g, C) <=>
           \/ p = Field(f) /\ q = Field(g)
           \/ \E s, t : Assign(s, t) \in C /\ p = Inside(f, s) /\ q = Inside(g, t)
<1>1. \A a \in C : a = Assign(a.from, a.to)
  BY DEF Assign
<1>2. \A s, t : Assign(s, t) \in C => Assign(Inside(f, s), Inside(g, t)) \in NestAs(f, g, C)
  BY DEF NestAs, Assign
<1>3. Assign(Field(f), Field(g)) \in NestAs(f, g, C)
  BY DEF NestAs, Rename
<1>4. ASSUME Assign(p, q) \in NestAs(f, g, C)
      PROVE  \/ p = Field(f) /\ q = Field(g)
             \/ \E s, t : Assign(s, t) \in C /\ p = Inside(f, s) /\ q = Inside(g, t)
  <2>1. CASE Assign(p, q) \in Rename(f, g)
    BY <2>1 DEF Rename, Assign
  <2>2. CASE \E a \in C : Assign(p, q) = Assign(Inside(f, a.from), Inside(g, a.to))
    <3>1. PICK a \in C : Assign(p, q) = Assign(Inside(f, a.from), Inside(g, a.to))
      BY <2>2
    <3>2. p = Inside(f, a.from) /\ q = Inside(g, a.to) /\ Assign(a.from, a.to) \in C
      BY <1>1, <3>1 DEF Assign
    <3> QED BY <3>2
  <2> QED BY <1>4, <2>1, <2>2 DEF NestAs
<1> QED BY <1>2, <1>3, <1>4

\* The fields that a converter of a nested struct reads and sets.
LEMMA NestTypes ==
  ASSUME NEW f, NEW g, NEW C, NEW R, NEW S, C \subseteq [from : R, to : S],
         NEW V, Field(f) \in V, \A p \in R : Inside(f, p) \in V,
         NEW W, Field(g) \in W, \A p \in S : Inside(g, p) \in W
  PROVE  NestAs(f, g, C) \subseteq [from : V, to : W]
BY DEF NestAs, Rename, Assign

\* A nested struct does not bring together what its fields keep apart.
LEMMA NestApart ==
  ASSUME NEW f \in Names, NEW g \in Names, NEW T, T \subseteq [from : Paths, to : Paths],
         \A p, q, r : Assign(p, q) \in T /\ Assign(p, r) \in T => q = r,
         NEW p, NEW q, NEW r, Assign(p, q) \in NestAs(f, g, T), Assign(p, r) \in NestAs(f, g, T)
  PROVE  q = r
<1>1. \A s, t : Assign(s, t) \in T => Inside(f, s) # Field(f) /\ Tail(Inside(f, s)) = s
  <2>1. \A s, t : Assign(s, t) \in T => s \in Paths
    BY DEF Assign
  <2> QED BY <2>1, LongPath
<1>2. \/ p = Field(f) /\ q = Field(g)
      \/ \E s, t : Assign(s, t) \in T /\ p = Inside(f, s) /\ q = Inside(g, t)
  BY NestValues
<1>3. \/ p = Field(f) /\ r = Field(g)
      \/ \E s, t : Assign(s, t) \in T /\ p = Inside(f, s) /\ r = Inside(g, t)
  BY NestValues
<1>4. CASE p = Field(f)
  BY <1>1, <1>2, <1>3, <1>4
<1>5. CASE p # Field(f)
  <2>1. PICK s, t : Assign(s, t) \in T /\ p = Inside(f, s) /\ q = Inside(g, t)
    BY <1>2, <1>5
  <2>2. PICK u, v : Assign(u, v) \in T /\ p = Inside(f, u) /\ r = Inside(g, v)
    BY <1>3, <1>5
  <2>3. s = u
    BY <1>1, <2>1, <2>2
  <2> QED BY <2>1, <2>2, <2>3
<1> QED BY <1>4, <1>5

\* The converters of a nested struct make the same assignments if those of its fields do.
LEMMA NestConverse ==
  ASSUME NEW f \in Names, NEW g \in Names, NEW T, NEW F,
         T \union F \subseteq [from : Paths, to : Paths],
         \A s, t : Assign(s, t) \in T => Assign(t, s) \in F,
         NEW p, NEW q, Assign(p, q) \in NestAs(f, g, T)
  PROVE  Assign(q, p) \in NestAs(g, f, F)
<1>1. \/ p = Field(f) /\ q = Field(g)
      \/ \E s, t : Assign(s, t) \in T /\ p = Inside(f, s) /\ q = Inside(g, t)
  BY NestValues
<1>2. CASE p = Field(f) /\ q = Field(g)
  BY <1>2, NestValues
<1>3. CASE \E s, t : Assign(s, t) \in T /\ p = Inside(f, s) /\ q = Inside(g, t)
  <2>1. PICK s, t : Assign(s, t) \in T /\ p = Inside(f, s) /\ q = Inside(g, t)
    BY <1>3
  <2>2. Assign(t, s) \in F /\ q = Inside(g, t) /\ p = Inside(f, s)
    BY <2>1
  <2> QED BY <2>2, NestValues
<1> QED BY <1>1, <1>2, <1>3

\* A struct that is converted field by field.
LEMMA NestPair ==
  ASSUME NEW f \in Names, NEW g \in Names, NEW T, NEW F, NEW G, Pair(T, F, G)
  PROVE  Pair(NestAs(f, g, T), NestAs(g, f, F), {f, g})
<1>1. T \union F \subseteq [from : Paths, to : Paths]
  BY DEF Pair, Under
<1>2. \A s, t : Assign(s, t) \in T <=> Assign(t, s) \in F
  BY DEF Pair
<1>3. \A p, q, r : Assign(p, q) \in T /\ Assign(p, r) \in T => q = r
  BY DEF Pair
<1>4. \A p, q, r : Assign(p, q) \in F /\ Assign(p, r) \in F => q = r
  BY DEF Pair
<1>5. /\ Field(f) \in Under({f, g}) /\ \A p \in Paths : Inside(f, p) \in Under({f, g})
      /\ Field(g) \in Under({f, g}) /\ \A p \in Paths : Inside(g, p) \in Under({f, g})
  BY ShortPath, LongPath DEF Under
<1>6. /\ NestAs(f, g, T) \subseteq [from : Under({f, g}), to : Under({f, g})]
      /\ NestAs(g, f, F) \subseteq [from : Under({f, g}), to : Under({f, g})]
  BY <1>1, <1>5, NestTypes
<1>7. \A p, q : Assign(p, q) \in NestAs(f, g, T) => Assign(q, p) \in NestAs(g, f, F)
  BY <1>1, <1>2, NestConverse
<1>8. \A p, q : Assign(p, q) \in NestAs(g, f, F) => Assign(q, p) \in NestAs(f, g, T)
  BY <1>1, <1>2, NestConverse
<1>9. \A p, q, r : Assign(p, q) \in NestAs(f, g, T) /\ Assign(p, r) \in NestAs(f, g, T) => q = r
  BY <1>1, <1>3, NestApart
<1>10. \A p, q, r : Assign(p, q) \in NestAs(g, f, F) /\ Assign(p, r) \in NestAs(g, f, F) => q = r
  BY <1>1, <1>4, NestApart
<1> QED BY <1>6, <1>7, <1>8, <1>9, <1>10 DEF Pair

-----------------------------------------------------------------------------
(* The converters of each struct, by what they are built from.             *)

\* F undoes T, and T undoes F.
Undo(T, F) == \E G : Pair(T, F, G)

\* Copies undo each other.
LEMMA CopyUndo == ASSUME NEW N \in SUBSET Names PROVE Undo(Copy(N), Copy(N))
BY CopyPair DEF Undo

\* A nested struct, f in v1beta1 and g in v1beta2.
LEMMA NestUndo ==
  ASSUME NEW f \in Names, NEW g \in Names, NEW T, NEW F, Undo(T, F)
  PROVE  Pair(NestAs(f, g, T), NestAs(g, f, F), {f, g})
<1>1. PICK G : Pair(T, F, G)
  BY DEF Undo
<1> QED BY <1>1, NestPair

\* A nested struct with one name.
LEMMA SameUndo ==
  ASSUME NEW f \in Names, NEW T, NEW F, Undo(T, F) PROVE Pair(Nest(f, T), Nest(f, F), {f})
<1>1. {f, f} = {f}
  OBVIOUS
<1> QED BY <1>1, NestUndo DEF Nest

\* One more nested struct, f in v1beta1 and g in v1beta2.
LEMMA AddNest ==
  ASSUME NEW T, NEW F, NEW G, Pair(T, F, G), NEW U, NEW E, Undo(U, E),
         NEW f \in Names \ G, NEW g \in Names \ G
  PROVE  Pair(T \union NestAs(f, g, U), F \union NestAs(g, f, E), G \union {f, g})
<1>1. Pair(NestAs(f, g, U), NestAs(g, f, E), {f, g})
  BY NestUndo
<1>2. G \intersect {f, g} = {}
  OBVIOUS
<1> QED BY <1>1, <1>2, SidePair

\* One more nested struct with one name.
LEMMA AddSame ==
  ASSUME NEW T, NEW F, NEW G, Pair(T, F, G), NEW U, NEW E, Undo(U, E), NEW f \in Names \ G
  PROVE  Pair(T \union Nest(f, U), F \union Nest(f, E), G \union {f})
<1>1. Pair(Nest(f, U), Nest(f, E), {f})
  BY SameUndo
<1>2. G \intersect {f} = {}
  OBVIOUS
<1> QED BY <1>1, <1>2, SidePair

\* Trusted certificates are copied.
LEMMA CertSecretsUndo == Undo(convertCertSecretsTo, convertCertSecretsFrom)
BY CopyUndo DEF Names, convertCertSecretsTo, convertCertSecretsFrom

\* Event templates are copied.
LEMMA EventTemplatesUndo == Undo(convertEventTemplatesTo, convertEventTemplatesFrom)
BY CopyUndo DEF Names, convertEventTemplatesTo, convertEventTemplatesFrom

\* Ingress settings are copied.
LEMMA NetworkConfigUndo == Undo(convertNetworkConfigTo, convertNetworkConfigFrom)
BY CopyUndo DEF Names, convertNetworkConfigTo, convertNetworkConfigFrom

\* Cache settings are copied.
LEMMA JmxCacheOptionsUndo == Undo(convertJmxCacheOptionsTo, convertJmxCacheOptionsFrom)
BY CopyUndo DEF Names, convertJmxCacheOptionsTo, convertJmxCacheOptionsFrom

\* Resource requirements are copied.
LEMMA ResourceOptionsUndo == Undo(convertResourceOptionsTo, convertResourceOptionsFrom)
BY CopyUndo DEF Names, convertResourceOptionsTo, convertResourceOptionsFrom

\* Security contexts are copied.
LEMMA SecurityOptionsUndo == Undo(convertSecurityOptionsTo, convertSecurityOptionsFrom)
BY CopyUndo DEF Names, convertSecurityOptionsTo, convertSecurityOptionsFrom

\* Labels and annotations are copied.
LEMMA ResourceMetadataUndo == Undo(convertResourceMetadataTo, convertResourceMetadataFrom)
BY CopyUndo DEF Names, convertResourceMetadataTo, convertResourceMetadataFrom

\* The secret of the database has another name in each version.
LEMMA DatabaseOptionsUndo == Undo(convertDatabaseOptionsTo, convertDatabaseOptionsFrom)
<1>1. "databaseSecretName" \in Names /\ "secretName" \in Names
  BY DEF Names
<1> QED BY <1>1, RenamePair DEF Undo, convertDatabaseOptionsTo, convertDatabaseOptionsFrom

\* Volumes: a claim, or an empty directory.
LEMMA StorageOptionsUndo == Undo(convertStorageOptionsTo, convertStorageOptionsFrom)
<1> DEFINE A == Copy({"spec", "annotations", "labels"})
           B == Copy({"enabled", "medium", "sizeLimit"})
<1>1. Undo(A, A) /\ Undo(B, B)
  BY CopyUndo DEF Names
<1>2. "pvc" \in Names /\ "emptyDir" \in Names \ {"pvc"}
  BY DEF Names
<1> HIDE DEF A, B
<1>3. Pair(Nest("pvc", A), Nest("pvc", A), {"pvc"})
  BY <1>1, <1>2, SameUndo
<1>4. Undo(Nest("pvc", A) \union Nest("emptyDir", B), Nest("pvc", A) \union Nest("emptyDir", B))
  BY <1>1, <1>2, <1>3, AddSame DEF Undo
<1> QED BY <1>4 DEF A, B, convertStorageOptionsTo, convertStorageOptionsFrom

\* Services: a port and the settings that all services have.
LEMMA ServiceOptionsUndo == Undo(convertServiceOptionsTo, convertServiceOptionsFrom)
<1> DEFINE A == Copy({"httpPort"})
           B == Copy({"serviceType", "annotations", "labels"})
           S == A \union B
<1>1. Pair(A, A, {"httpPort"})
  BY CopyPair DEF Names
<1>2. Pair(B, B, {"serviceType", "annotations", "labels"})
  BY CopyPair DEF Names
<1>3. {"httpPort"} \intersect {"serviceType", "annotations", "labels"} = {}
  OBVIOUS
<1>4. "coreConfig" \in Names /\ "reportsConfig" \in Names \ {"coreConfig"}
  BY DEF Names
<1> HIDE DEF A, B
<1>5. Undo(S, S)
  BY <1>1, <1>2, <1>3, SidePair DEF Undo
<1> HIDE DEF S
<1>6. Pair(Nest("coreConfig", S), Nest("coreConfig", S), {"coreConfig"})
  BY <1>4, <1>5, SameUndo
<1>7. Undo(Nest("coreConfig", S) \union Nest("reportsConfig", S),
           Nest("coreConfig", S) \union Nest("reportsConfig", S))
  BY <1>4, <1>5, <1>6, AddSame DEF Undo
<1> QED BY <1>7 DEF S, A, B, convertServiceOptionsTo, convertServiceOptionsFrom,
                     convertServiceConfigTo, convertServiceConfigFrom

\* Networks: only the core service's is converted.
LEMMA NetworkOptionsUndo == Undo(convertNetworkOptionsTo, convertNetworkOptionsFrom)
<1>1. "coreConfig" \in Names
  BY DEF Names
<1> QED BY <1>1, SameUndo, NetworkConfigUndo
        DEF Undo, convertNetworkOptionsTo, convertNetworkOptionsFrom

\* Scheduling: selectors, and the affinities.
LEMMA SchedulingOptionsUndo == Undo(convertSchedulingOptionsTo, convertSchedulingOptionsFrom)
<1> DEFINE A == Copy({"nodeSelector", "tolerations"})
           B == Copy({"nodeAffinity", "podAffinity", "podAntiAffinity"})
<1>1. Pair(A, A, {"nodeSelector", "tolerations"})
  BY CopyPair DEF Names
<1>2. Undo(B, B)
  BY CopyUndo DEF Names
<1>3. "affinity" \in Names \ {"nodeSelector", "tolerations"}
  BY DEF Names
<1> HIDE DEF A, B
<1>4. Undo(A \union Nest("affinity", B), A \union Nest("affinity", B))
  BY <1>1, <1>2, <1>3, AddSame DEF Undo
<1> QED BY <1>4 DEF A, B, convertSchedulingOptionsTo, convertSchedulingOptionsFrom

\* Report generators: their own fields, security and scheduling.
LEMMA ReportOptionsUndo == Undo(convertReportOptionsTo, convertReportOptionsFrom)
<1> DEFINE A == Copy({"replicas", "resources", "subProcessMaxHeapSize"})
           B == Copy({"podSecurityContext", "reportsSecurityContext"})
           G == {"replicas", "resources", "subProcessMaxHeapSize"}
           T == convertSchedulingOptionsTo
           F == convertSchedulingOptionsFrom
<1>1. Pair(A, A, G)
  BY CopyPair DEF Names
<1>2. Undo(B, B)
  BY CopyUndo DEF Names
<1>3. "securityOptions" \in Names \ G
  BY DEF Names
<1>4. "schedulingOptions" \in Names \ (G \union {"securityOptions"})
  BY DEF Names
<1>5. Undo(T, F)
  BY SchedulingOptionsUndo
<1> HIDE DEF A, B, G, T, F
<1>6. Pair(A \union Nest("securityOptions", B), A \union Nest("securityOptions", B),
           G \union {"securityOptions"})
  BY <1>1, <1>2, <1>3, AddSame
<1>7. Undo(A \union Nest("securityOptions", B) \union Nest("schedulingOptions", T),
           A \union Nest("securityOptions", B) \union Nest("schedulingOptions", F))
  BY <1>4, <1>5, <1>6, AddSame DEF Undo
<1> QED BY <1>7 DEF A, B, T, F, convertReportOptionsTo, convertReportOptionsFrom

\* Target discovery: one field has another name in each version.
LEMMA TargetDiscoveryUndo == Undo(convertTargetDiscoveryTo, convertTargetDiscoveryFrom)
<1> DEFINE N == {"disableBuiltInPortNames", "discoveryPortNames",
                 "disableBuiltInPortNumbers", "discoveryPortNumbers"}
           f == "builtInDiscoveryDisabled"
           g == "disableBuiltInDiscovery"
<1>1. N \in SUBSET Names /\ f \in Names /\ g \in Names /\ {f, g} \intersect N = {}
  BY DEF Names
<1> HIDE DEF N, f, g
<1>2. Pair(Rename(f, g), Rename(g, f), {f, g}) /\ Pair(Copy(N), Copy(N), N)
  BY <1>1, RenamePair, CopyPair
<1>3. Undo(Rename(f, g) \union Copy(N), Rename(g, f) \union Copy(N))
  BY <1>1, <1>2, SidePair DEF Undo
<1> QED BY <1>3 DEF N, f, g, convertTargetDiscoveryTo, convertTargetDiscoveryFrom

\* Metadata of deployments and of pods.
LEMMA OperandMetadataUndo == Undo(convertOperandMetadataTo, convertOperandMetadataFrom)
<1> DEFINE T == convertResourceMetadataTo
           F == convertResourceMetadataFrom
<1>1. "deploymentMetadata" \in Names /\ "podMetadata" \in Names \ {"deploymentMetadata"}
  BY DEF Names
<1>2. Undo(T, F)
  BY ResourceMetadataUndo
<1> HIDE DEF T, F
<1>3. Pair(Nest("deploymentMetadata", T), Nest("deploymentMetadata", F), {"deploymentMetadata"})
  BY <1>1, <1>2, SameUndo
<1>4. Undo(Nest("deploymentMetadata", T) \union Nest("podMetadata", T),
           Nest("deploymentMetadata", F) \union Nest("podMetadata", F))
  BY <1>1, <1>2, <1>3, AddSame DEF Undo
<1> QED BY <1>4 DEF T, F, convertOperandMetadataTo, convertOperandMetadataFrom

\* The spec: the structs one after the other, each under names of its own.
LEMMA SpecPair == \E G : Pair(convertSpecTo, convertSpecFrom, G) /\ "enableAudit" \notin G
<1> DEFINE G1 == {"enableCertManager"}
           T1 == Copy(G1)
           F1 == Copy(G1)
           G2 == G1 \union {"trustedCertSecrets"}
           T2 == T1 \union Nest("trustedCertSecrets", convertCertSecretsTo)
           F2 == F1 \union Nest("trustedCertSecrets", convertCertSecretsFrom)
           G3 == G2 \union {"eventTemplates"}
           T3 == T2 \union Nest("eventTemplates", convertEventTemplatesTo)
           F3 == F2 \union Nest("eventTemplates", convertEventTemplatesFrom)
           G4 == G3 \union {"storageOptions"}
           T4 == T3 \union Nest("storageOptions", convertStorageOptionsTo)
           F4 == F3 \union Nest("storageOptions", convertStorageOptionsFrom)
           G5 == G4 \union {"serviceOptions"}
           T5 == T4 \union Nest("serviceOptions", convertServiceOptionsTo)
           F5 == F4 \union Nest("serviceOptions", convertServiceOptionsFrom)
           G6 == G5 \union {"networkOptions"}
           T6 == T5 \union Nest("networkOptions", convertNetworkOptionsTo)
           F6 == F5 \union Nest("networkOptions", convertNetworkOptionsFrom)
           G7 == G6 \union {"reportOptions"}
           T7 == T6 \union Nest("reportOptions", convertReportOptionsTo)
           F7 == F6 \union Nest("reportOptions", convertReportOptionsFrom)
           G8 == G7 \union {"jmxCacheOptions", "targetConnectionCacheOptions"}
           T8 == T7
               \union NestAs("jmxCacheOptions", "targetConnectionCacheOptions", convertJmxCacheOptionsTo)
           F8 == F7
               \union NestAs("targetConnectionCacheOptions", "jmxCacheOptions", convertJmxCacheOptionsFrom)
           G9 == G8 \union {"resources"}
           T9 == T8 \union Nest("resources", convertResourceOptionsTo)
           F9 == F8 \union Nest("resources", convertResourceOptionsFrom)
           G10 == G9 \union {"securityOptions"}
           T10 == T9 \union Nest("securityOptions", convertSecurityOptionsTo)
           F10 == F9 \union Nest("securityOptions", convertSecurityOptionsFrom)
           G11 == G10 \union {"schedulingOptions"}
           T11 == T10 \union Nest("schedulingOptions", convertSchedulingOptionsTo)
           F11 == F10 \union Nest("schedulingOptions", convertSchedulingOptionsFrom)
           G12 == G11 \union {"targetDiscoveryOptions"}
           T12 == T11 \union Nest("targetDiscoveryOptions", convertTargetDiscoveryTo)
           F12 == F11 \union Nest("targetDiscoveryOptions", convertTargetDiscoveryFrom)
           G13 == G12 \union {"jmxCredentialsDatabaseOptions", "databaseOptions"}
           T13 == T12
               \union NestAs("jmxCredentialsDatabaseOptions", "databaseOptions", convertDatabaseOptionsTo)
           F13 == F12
               \union NestAs("databaseOptions", "jmxCredentialsDatabaseOptions", convertDatabaseOptionsFrom)
           G14 == G13 \union {"operandMetadata"}
           T14 == T13 \union Nest("operandMetadata", convertOperandMetadataTo)
           F14 == F13 \union Nest("operandMetadata", convertOperandMetadataFrom)
<1>1. Pair(T1, F1, G1)
  BY CopyPair DEF Names
<1>2. Pair(T2, F2, G2)
  <2>1. "trustedCertSecrets" \in Names \ G1
    BY DEF Names
  <2> HIDE DEF T1, F1, G1
  <2> QED BY <1>1, <2>1, AddSame, CertSecretsUndo
<1>3. Pair(T3, F3, G3)
  <2>1. "eventTemplates" \in Names \ G2
    BY DEF Names
  <2> HIDE DEF T2, F2, G2
  <2> QED BY <1>2, <2>1, AddSame, EventTemplatesUndo
<1>4. Pair(T4, F4, G4)
  <2>1. "storageOptions" \in Names \ G3
    BY DEF Names
  <2> HIDE DEF T3, F3, G3
  <2> QED BY <1>3, <2>1, AddSame, StorageOptionsUndo
<1>5. Pair(T5, F5, G5)
  <2>1. "serviceOptions" \in Names \ G4
    BY DEF Names
  <2> HIDE DEF T4, F4, G4
  <2> QED BY <1>4, <2>1, AddSame, ServiceOptionsUndo
<1>6. Pair(T6, F6, G6)
  <2>1. "networkOptions" \in Names \ G5
    BY DEF Names
  <2> HIDE DEF T5, F5, G5
  <2> QED BY <1>5, <2>1, AddSame, NetworkOptionsUndo
<1>7. Pair(T7, F7, G7)
  <2>1. "reportOptions" \in Names \ G6
    BY DEF Names
  <2> HIDE DEF T6, F6, G6
  <2> QED BY <1>6, <2>1, AddSame, ReportOptionsUndo
<1>8. Pair(T8, F8, G8)
  <2>1. "jmxCacheOptions" \in Names \ G7 /\ "targetConnectionCacheOptions" \in Names \ G7
    BY DEF Names
  <2> HIDE DEF T7, F7, G7
  <2> QED BY <1>7, <2>1, AddNest, JmxCacheOptionsUndo
<1>9. Pair(T9, F9, G9)
  <2>1. "resources" \in Names \ G8
    BY DEF Names
  <2> HIDE DEF T8, F8, G8
  <2> QED BY <1>8, <2>1, AddSame, ResourceOptionsUndo
<1>10. Pair(T10, F10, G10)
  <2>1. "securityOptions" \in Names \ G9
    BY DEF Names
  <2> HIDE DEF T9, F9, G9
  <2> QED BY <1>9, <2>1, AddSame, SecurityOptionsUndo
<1>11. Pair(T11, F11, G11)
  <2>1. "schedulingOptions" \in Names \ G10
    BY DEF Names
  <2> HIDE DEF T10, F10, G10
  <2> QED BY <1>10, <2>1, AddSame, SchedulingOptionsUndo
<1>12. Pair(T12, F12, G12)
  <2>1. "targetDiscoveryOptions" \in Names \ G11
    BY DEF Names
  <2> HIDE DEF T11, F11, G11
  <2> QED BY <1>11, <2>1, AddSame, TargetDiscoveryUndo
<1>13. Pair(T13, F13, G13)
  <2>1. "jmxCredentialsDatabaseOptions" \in Names \ G12 /\ "databaseOptions" \in Names \ G12
    BY DEF Names
  <2> HIDE DEF T12, F12, G12
  <2> QED BY <1>12, <2>1, AddNest, DatabaseOptionsUndo
<1>14. Pair(T14, F14, G14)
  <2>1. "operandMetadata" \in Names \ G13
    BY DEF Names
  <2> HIDE DEF T13, F13, G13
  <2> QED BY <1>13, <2>1, AddSame, OperandMetadataUndo
<1>15. "enableAudit" \notin G14
  OBVIOUS
<1>16. T14 = convertSpecTo /\ F14 = convertSpecFrom
  BY DEF convertSpecTo, convertSpecFrom
<1> HIDE DEF T14, F14, G14
<1> QED BY <1>14, <1>15, <1>16

-----------------------------------------------------------------------------
(* What converted objects hold.                                            *)

\* A converter whose assignments do not share results takes each value over.
LEMMA ConvertValues ==
  ASSUME NEW C, NEW o, \A a \in C : a = Assign(a.from, a.to),
         \A p, q, r : Assign(q, p) \in C /\ Assign(r, p) \in C => q = r
  PROVE  /\ \A q \in DOMAIN Convert(C, o) : \E p \in DOMAIN o : Assign(p, q) \in C
         /\ \A p, q : Assign(p, q) \in C /\ p \in DOMAIN o =>
              q \in DOMAIN Convert(C, o) /\ Convert(C, o)[q] = o[p]
<1>1. DOMAIN Convert(C, o) = {a.to : a \in Assigned(C, o)}
  BY DEF Convert
<1>2. ASSUME NEW q \in DOMAIN Convert(C, o) PROVE \E p \in DOMAIN o : Assign(p, q) \in C
  <2>1. PICK a \in Assigned(C, o) : q = a.to
    BY <1>1
  <2>2. a \in C /\ a.from \in DOMAIN o /\ a = Assign(a.from, q)
    BY <2>1 DEF Assigned
  <2> QED BY <2>2
<1>3. ASSUME NEW p, NEW q, Assign(p, q) \in C, p \in DOMAIN o
      PROVE  q \in DOMAIN Convert(C, o) /\ Convert(C, o)[q] = o[p]
  <2> DEFINE b == CHOOSE a \in Assigned(C, o) : a.to = q
  <2>1. Assign(p, q) \in Assigned(C, o) /\ Assign(p, q).to = q
    BY <1>3 DEF Assigned, Assign
  <2>2. b \in Assigned(C, o) /\ b.to = q
    BY <2>1
  <2>3. q \in DOMAIN Convert(C, o)
    BY <1>1, <2>1
  <2>4. Convert(C, o)[q] = o[b.from]
    BY <1>1, <2>3 DEF Convert
  <2> HIDE DEF b
  <2>5. Assign(b.from, q) \in C
    BY <2>2 DEF Assigned
  <2>6. b.from = p
    BY <1>3, <2>5
  <2> QED BY <2>3, <2>4, <2>6
<1> QED BY <1>2, <1>3

\* The object is a function of its fields.
LEMMA ConvertFunction ==
  ASSUME NEW C, NEW o PROVE Convert(C, o) = [q \in DOMAIN Convert(C, o) |-> Convert(C, o)[q]]
BY DEF Convert

\* Of an object that is converted forth and back, what is left has the values it
\* had, and it is all that was there to see in between.
LEMMA RoundTrip ==
  ASSUME NEW T, NEW F, NEW G, Pair(T, F, G), NEW h
  PROVE  /\ \A q \in DOMAIN Convert(T, Convert(F, h)) :
              q \in DOMAIN h /\ Convert(T, Convert(F, h))[q] = h[q]
         /\ Convert(F, Convert(T, Convert(F, h))) = Convert(F, h)
<1> DEFINE s == Convert(F, h)
           again == Convert(T, s)
           twice == Convert(F, again)
<1>1. /\ \A p, q : Assign(p, q) \in T <=> Assign(q, p) \in F
      /\ \A p, q, r : Assign(q, p) \in F /\ Assign(r, p) \in F => q = r
      /\ \A p, q, r : Assign(q, p) \in T /\ Assign(r, p) \in T => q = r
  BY DEF Pair
<1>2. \A a \in T \union F : a = Assign(a.from, a.to)
  BY DEF Pair, Assign
<1>3. /\ \A p \in DOMAIN s : \E q \in DOMAIN h : Assign(q, p) \in F
      /\ \A p, q : Assign(q, p) \in F /\ q \in DOMAIN h => p \in DOMAIN s /\ s[p] = h[q]
  BY <1>1, <1>2, ConvertValues
<1>4. s = [p \in DOMAIN s |-> s[p]]
  BY ConvertFunction
<1> HIDE DEF s
<1>5. /\ \A q \in DOMAIN again : \E p \in DOMAIN s : Assign(p, q) \in T
      /\ \A p, q : Assign(p, q) \in T /\ p \in DOMAIN s => q \in DOMAIN again /\ again[q] = s[p]
  BY <1>1, <1>2, ConvertValues
<1> HIDE DEF again
<1>6. /\ \A p \in DOMAIN twice : \E q \in DOMAIN again : Assign(q, p) \in F
      /\ \A p, q : Assign(q, p) \in F /\ q \in DOMAIN again =>
                      p \in DOMAIN twice /\ twice[p] = again[q]
  BY <1>1, <1>2, ConvertValues
<1>7. twice = [p \in DOMAIN twice |-> twice[p]]
  BY ConvertFunction
<1> HIDE DEF twice
<1>8. ASSUME NEW q \in DOMAIN again PROVE q \in DOMAIN h /\ again[q] = h[q]
  <2>1. PICK p \in DOMAIN s : Assign(p, q) \in T
    BY <1>5
  <2>2. PICK r \in DOMAIN h : Assign(r, p) \in F
    BY <1>3
  <2>3. r = q
    BY <1>1, <2>1, <2>2
  <2> QED BY <1>3, <1>5, <2>1, <2>2, <2>3
<1>9. ASSUME NEW p \in DOMAIN s PROVE p \in DOMAIN twice /\ twice[p] = s[p]
  <2>1. PICK q \in DOMAIN h : Assign(q, p) \in F
    BY <1>3
  <2>2. q \in DOMAIN again /\ again[q] = s[p]
    BY <1>1, <1>5, <2>1
  <2> QED BY <1>6, <2>1, <2>2
<1>10. ASSUME NEW p \in DOMAIN twice PROVE p \in DOMAIN s
  <2>1. PICK q \in DOMAIN again : Assign(q, p) \in F
    BY <1>6
  <2> QED BY <1>3, <1>8, <2>1
<1>11. DOMAIN twice = DOMAIN s
  BY <1>9, <1>10
<1>12. twice = s
  BY <1>4, <1>7, <1>9, <1>11
<1> QED BY <1>8, <1>12 DEF s, again, twice

-----------------------------------------------------------------------------
(* Old clients read objects of their own version.                          *)

\* A converter that sets only fields in S.
Sets(C, S) == \A a \in C : a.to \in S

\* The two versions describe structs in the same way.
LEMMA SameShapes ==
  /\ \A N : V1!Fields(N) = Fields(N)
  /\ \A n, S : V1!Struct(n, S) = Struct(n, S)
BY DEF V1!Fields, V1!Struct, V1!Field, V1!Inside, Fields, Struct, Field, Inside

\* Copied fields.
LEMMA CopySets == ASSUME NEW N, NEW S, Fields(N) \subseteq S PROVE Sets(Copy(N), S)
BY DEF Sets, Copy, Assign

\* Nested structs.
LEMMA NestSets ==
  ASSUME NEW f, NEW g, NEW C, NEW S, Sets(C, S) PROVE Sets(NestAs(f, g, C), Struct(g, S))
BY DEF Sets, NestAs, Rename, Struct, Assign

\* Converters side by side.
LEMMA SideSets ==
  ASSUME NEW C, NEW D, NEW R, NEW S, Sets(C, R), Sets(D, S) PROVE Sets(C \union D, R \union S)
BY DEF Sets

\* Structs of fields only.
LEMMA FlatSets ==
  /\ Sets(convertCertSecretsFrom, V1!CertificateSecret)
  /\ Sets(convertEventTemplatesFrom, V1!TemplateConfigMap)
  /\ Sets(convertServiceConfigFrom, V1!ServiceConfig)
  /\ Sets(convertNetworkConfigFrom, V1!NetworkConfiguration)
  /\ Sets(convertJmxCacheOptionsFrom, V1!JmxCacheOptions)
  /\ Sets(convertResourceOptionsFrom, V1!ResourceConfigList)
  /\ Sets(convertSecurityOptionsFrom, V1!SecurityOptions)
  /\ Sets(convertResourceMetadataFrom, V1!ResourceMetadata)
  /\ Sets(convertTargetDiscoveryFrom, V1!TargetDiscoveryOptions)
  /\ Sets(convertDatabaseOptionsFrom, V1!JmxCredentialsDatabaseOptions)
<1>1. Sets(convertCertSecretsFrom, V1!CertificateSecret)
  BY SameShapes DEF Sets, Copy, Assign, Fields, convertCertSecretsFrom, V1!CertificateSecret
<1>2. Sets(convertEventTemplatesFrom, V1!TemplateConfigMap)
  BY SameShapes DEF Sets, Copy, Assign, Fields, convertEventTemplatesFrom, V1!TemplateConfigMap
<1>3. Sets(convertServiceConfigFrom, V1!ServiceConfig)
  BY SameShapes DEF Sets, Copy, Assign, Fields, convertServiceConfigFrom, V1!ServiceConfig
<1>4. Sets(convertNetworkConfigFrom, V1!NetworkConfiguration)
  BY SameShapes DEF Sets, Copy, Assign, Fields, convertNetworkConfigFrom, V1!NetworkConfiguration
<1>5. Sets(convertJmxCacheOptionsFrom, V1!JmxCacheOptions)
  BY SameShapes DEF Sets, Copy, Assign, Fields, convertJmxCacheOptionsFrom, V1!JmxCacheOptions
<1>6. Sets(convertResourceOptionsFrom, V1!ResourceConfigList)
  BY SameShapes DEF Sets, Copy, Assign, Fields, convertResourceOptionsFrom, V1!ResourceConfigList
<1>7. Sets(convertSecurityOptionsFrom, V1!SecurityOptions)
  BY SameShapes DEF Sets, Copy, Assign, Fields, convertSecurityOptionsFrom, V1!SecurityOptions
<1>8. Sets(convertResourceMetadataFrom, V1!ResourceMetadata)
  BY SameShapes DEF Sets, Copy, Assign, Fields, convertResourceMetadataFrom, V1!ResourceMetadata
<1>9. Sets(convertTargetDiscoveryFrom, V1!TargetDiscoveryOptions)
  BY SameShapes DEF Sets, Rename, Copy, Assign, Fields, convertTargetDiscoveryFrom,
                    V1!TargetDiscoveryOptions
<1>10. Sets(convertDatabaseOptionsFrom, V1!JmxCredentialsDatabaseOptions)
  BY SameShapes DEF Sets, Rename, Assign, Fields, convertDatabaseOptionsFrom,
                    V1!JmxCredentialsDatabaseOptions
<1> QED BY <1>1, <1>2, <1>3, <1>4, <1>5, <1>6, <1>7, <1>8, <1>9, <1>10

\* Storage.
LEMMA StorageSets == Sets(convertStorageOptionsFrom, V1!StorageConfiguration)
<1>1. Sets(Copy({"spec", "annotations", "labels"}), V1!PersistentVolumeClaimConfig)
  BY SameShapes DEF Sets, Copy, Assign, Fields, V1!PersistentVolumeClaimConfig
<1>2. Sets(Copy({"enabled", "medium", "sizeLimit"}), V1!EmptyDirConfig)
  BY SameShapes DEF Sets, Copy, Assign, Fields, V1!EmptyDirConfig
<1>3. Sets(Nest("pvc", Copy({"spec", "annotations", "labels"})),
           Struct("pvc", V1!PersistentVolumeClaimConfig))
  BY <1>1, NestSets DEF Nest
<1>4. Sets(Nest("emptyDir", Copy({"enabled", "medium", "sizeLimit"})),
           Struct("emptyDir", V1!EmptyDirConfig))
  BY <1>2, NestSets DEF Nest
<1> QED BY <1>3, <1>4, SideSets, SameShapes DEF convertStorageOptionsFrom, V1!StorageConfiguration

\* Services: there are others that are not converted.
LEMMA ServiceSets == Sets(convertServiceOptionsFrom, V1!ServiceConfigList)
<1> DEFINE C == Copy({"httpPort"}) \union convertServiceConfigFrom
<1>1. Sets(Copy({"httpPort"}), V1!Fields({"httpPort", "jmxPort"}))
  BY SameShapes DEF Sets, Copy, Assign, Fields
<1>2. Sets(Copy({"httpPort"}), V1!Fields({"httpPort"}))
  BY SameShapes DEF Sets, Copy, Assign, Fields
<1>3. Sets(C, V1!CoreServiceConfig)
  BY <1>1, FlatSets, SideSets DEF V1!CoreServiceConfig
<1>4. Sets(C, V1!ReportsServiceConfig)
  BY <1>2, FlatSets, SideSets DEF V1!ReportsServiceConfig
<1> HIDE DEF C
<1>5. Sets(Nest("coreConfig", C), Struct("coreConfig", V1!CoreServiceConfig))
  BY <1>3, NestSets DEF Nest
<1>6. Sets(Nest("reportsConfig", C), Struct("reportsConfig", V1!ReportsServiceConfig))
  BY <1>4, NestSets DEF Nest
<1>7. Sets(Nest("coreConfig", C) \union Nest("reportsConfig", C), V1!ServiceConfigList)
  BY <1>5, <1>6, SameShapes DEF Sets, V1!ServiceConfigList
<1> QED BY <1>7 DEF C, convertServiceOptionsFrom

\* Networks: there are others that are not converted.
LEMMA NetworkSets == Sets(convertNetworkOptionsFrom, V1!NetworkConfigurationList)
<1>1. Sets(convertNetworkOptionsFrom, Struct("coreConfig", V1!NetworkConfiguration))
  BY FlatSets, NestSets DEF Nest, convertNetworkOptionsFrom
<1> QED BY <1>1, SameShapes DEF Sets, V1!NetworkConfigurationList

\* Scheduling.
LEMMA SchedulingSets == Sets(convertSchedulingOptionsFrom, V1!SchedulingConfiguration)
<1>1. Sets(Copy({"nodeSelector", "tolerations"}), V1!Fields({"nodeSelector", "tolerations"}))
  BY SameShapes DEF Sets, Copy, Assign, Fields
<1>2. Sets(Copy({"nodeAffinity", "podAffinity", "podAntiAffinity"}), V1!Affinity)
  BY SameShapes DEF Sets, Copy, Assign, Fields, V1!Affinity
<1>3. Sets(Nest("affinity", Copy({"nodeAffinity", "podAffinity", "podAntiAffinity"})),
           V1!Struct("affinity", V1!Affinity))
  BY <1>2, NestSets, SameShapes DEF Nest
<1> QED BY <1>1, <1>3, SideSets DEF convertSchedulingOptionsFrom, V1!SchedulingConfiguration

\* Report generators.
LEMMA ReportSets == Sets(convertReportOptionsFrom, V1!ReportConfiguration)
<1>1. Sets(Copy({"replicas", "resources", "subProcessMaxHeapSize"}),
           V1!Fields({"replicas", "resources", "subProcessMaxHeapSize"}))
  BY SameShapes DEF Sets, Copy, Assign, Fields
<1>2. Sets(Copy({"podSecurityContext", "reportsSecurityContext"}), V1!ReportsSecurityOptions)
  BY SameShapes DEF Sets, Copy, Assign, Fields, V1!ReportsSecurityOptions
<1>3. Sets(Nest("securityOptions", Copy({"podSecurityContext", "reportsSecurityContext"})),
           V1!Struct("securityOptions", V1!ReportsSecurityOptions))
  BY <1>2, NestSets, SameShapes DEF Nest
<1>4. Sets(Nest("schedulingOptions", convertSchedulingOptionsFrom),
           V1!Struct("schedulingOptions", V1!SchedulingConfiguration))
  BY SchedulingSets, NestSets, SameShapes DEF Nest
<1> QED BY <1>1, <1>3, <1>4, SideSets DEF convertReportOptionsFrom, V1!ReportConfiguration

\* Metadata.
LEMMA MetadataSets == Sets(convertOperandMetadataFrom, V1!OperandMetadata)
<1>1. Sets(Nest("deploymentMetadata", convertResourceMetadataFrom),
           V1!Struct("deploymentMetadata", V1!ResourceMetadata))
  BY FlatSets, NestSets, SameShapes DEF Nest
<1>2. Sets(Nest("podMetadata", convertResourceMetadataFrom),
           V1!Struct("podMetadata", V1!ResourceMetadata))
  BY FlatSets, NestSets, SameShapes DEF Nest
<1> QED BY <1>1, <1>2, SideSets DEF convertOperandMetadataFrom, V1!OperandMetadata

\* The conversion to v1beta1 sets only fields of v1beta1.
LEMMA SpecSets == Sets(convertSpecFrom, V1!CryostatSpec)
<1> DEFINE S == V1!CryostatSpec
<1>1. Sets(Copy({"enableCertManager"}), S)
  BY SameShapes DEF Sets, Copy, Assign, Fields, V1!CryostatSpec
<1>2. Sets(Nest("trustedCertSecrets", convertCertSecretsFrom), S)
  <2>1. Sets(Nest("trustedCertSecrets", convertCertSecretsFrom),
             V1!Struct("trustedCertSecrets", V1!CertificateSecret))
    BY FlatSets, NestSets, SameShapes DEF Nest
  <2> QED BY <2>1 DEF Sets, V1!CryostatSpec
<1>3. Sets(Nest("eventTemplates", convertEventTemplatesFrom), S)
  <2>1. Sets(Nest("eventTemplates", convertEventTemplatesFrom),
             V1!Struct("eventTemplates", V1!TemplateConfigMap))
    BY FlatSets, NestSets, SameShapes DEF Nest
  <2> QED BY <2>1 DEF Sets, V1!CryostatSpec
<1>4. Sets(Nest("storageOptions", convertStorageOptionsFrom), S)
  <2>1. Sets(Nest("storageOptions", convertStorageOptionsFrom),
             V1!Struct("storageOptions", V1!StorageConfiguration))
    BY StorageSets, NestSets, SameShapes DEF Nest
  <2> QED BY <2>1 DEF Sets, V1!CryostatSpec
<1>5. Sets(Nest("serviceOptions", convertServiceOptionsFrom), S)
  <2>1. Sets(Nest("serviceOptions", convertServiceOptionsFrom),
             V1!Struct("serviceOptions", V1!ServiceConfigList))
    BY ServiceSets, NestSets, SameShapes DEF Nest
  <2> QED BY <2>1 DEF Sets, V1!CryostatSpec
<1>6. Sets(Nest("networkOptions", convertNetworkOptionsFrom), S)
  <2>1. Sets(Nest("networkOptions", convertNetworkOptionsFrom),
             V1!Struct("networkOptions", V1!NetworkConfigurationList))
    BY NetworkSets, NestSets, SameShapes DEF Nest
  <2> QED BY <2>1 DEF Sets, V1!CryostatSpec
<1>7. Sets(Nest("reportOptions", convertReportOptionsFrom), S)
  <2>1. Sets(Nest("reportOptions", convertReportOptionsFrom),
             V1!Struct("reportOptions", V1!ReportConfiguration))
    BY ReportSets, NestSets, SameShapes DEF Nest
  <2> QED BY <2>1 DEF Sets, V1!CryostatSpec
<1>8. Sets(NestAs("targetConnectionCacheOptions", "jmxCacheOptions", convertJmxCacheOptionsFrom), S)
  <2>1. Sets(NestAs("targetConnectionCacheOptions", "jmxCacheOptions", convertJmxCacheOptionsFrom),
             V1!Struct("jmxCacheOptions", V1!JmxCacheOptions))
    BY FlatSets, NestSets, SameShapes
  <2> QED BY <2>1 DEF Sets, V1!CryostatSpec
<1>9. Sets(Nest("resources", convertResourceOptionsFrom), S)
  <2>1. Sets(Nest("resources", convertResourceOptionsFrom),
             V1!Struct("resources", V1!ResourceConfigList))
    BY FlatSets, NestSets, SameShapes DEF Nest
  <2> QED BY <2>1 DEF Sets, V1!CryostatSpec
<1>10. Sets(Nest("securityOptions", convertSecurityOptionsFrom), S)
  <2>1. Sets(Nest("securityOptions", convertSecurityOptionsFrom),
             V1!Struct("securityOptions", V1!SecurityOptions))
    BY FlatSets, NestSets, SameShapes DEF Nest
  <2> QED BY <2>1 DEF Sets, V1!CryostatSpec
<1>11. Sets(Nest("schedulingOptions", convertSchedulingOptionsFrom), S)
  <2>1. Sets(Nest("schedulingOptions", convertSchedulingOptionsFrom),
             V1!Struct("schedulingOptions", V1!SchedulingConfiguration))
    BY SchedulingSets, NestSets, SameShapes DEF Nest
  <2> QED BY <2>1 DEF Sets, V1!CryostatSpec
<1>12. Sets(Nest("targetDiscoveryOptions", convertTargetDiscoveryFrom), S)
  <2>1. Sets(Nest("targetDiscoveryOptions", convertTargetDiscoveryFrom),
             V1!Struct("targetDiscoveryOptions", V1!TargetDiscoveryOptions))
    BY FlatSets, NestSets, SameShapes DEF Nest
  <2> QED BY <2>1 DEF Sets, V1!CryostatSpec
<1>13. Sets(NestAs("databaseOptions", "jmxCredentialsDatabaseOptions", convertDatabaseOptionsFrom), S)
  <2>1. Sets(NestAs("databaseOptions", "jmxCredentialsDatabaseOptions", convertDatabaseOptionsFrom),
             V1!Struct("jmxCredentialsDatabaseOptions", V1!JmxCredentialsDatabaseOptions))
    BY FlatSets, NestSets, SameShapes
  <2> QED BY <2>1 DEF Sets, V1!CryostatSpec
<1>14. Sets(Nest("operandMetadata", convertOperandMetadataFrom), S)
  <2>1. Sets(Nest("operandMetadata", convertOperandMetadataFrom),
             V1!Struct("operandMetadata", V1!OperandMetadata))
    BY MetadataSets, NestSets, SameShapes DEF Nest
  <2> QED BY <2>1 DEF Sets, V1!CryostatSpec
<1> HIDE DEF S
<1>15. Sets(convertSpecFrom, S)
  BY <1>1, <1>2, <1>3, <1>4, <1>5, <1>6, <1>7, <1>8, <1>9, <1>10, <1>11, <1>12, <1>13, <1>14
     DEF Sets, convertSpecFrom
<1> QED BY <1>15 DEF S
=============================================================================
