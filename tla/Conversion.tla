----------------------------- MODULE Conversion -----------------------------
(***************************************************************************)
(* Conversion of a Cryostat between v1beta1, which old clients use, and    *)
(* v1beta2, which is stored (api/v1beta1/cryostat_conversion.go).  A       *)
(* converter is a set of assignments, each from a field of the source      *)
(* to the field of the result that takes its value.                        *)
(***************************************************************************)
EXTENDS FieldPaths

V1 == INSTANCE V1Beta1Types
V2 == INSTANCE V1Beta2Types

-----------------------------------------------------------------------------
(* Converters.                                                             *)

Assign(p, q) == [from |-> p, to |-> q]

\* Fields that are assigned to fields with other names, and with the same.
Rename(f, g) == {Assign(Field(f), Field(g))}
Copy(names)  == {Assign(p, p) : p \in Fields(names)}

\* A struct that is converted field by field if it is there.
NestAs(f, g, C) == Rename(f, g) \union {Assign(Inside(f, a.from), Inside(g, a.to)) : a \in C}
Nest(f, C) == NestAs(f, f, C)

\* The assignments whose source is set in o, and their results.
Assigned(C, o) == {a \in C : a.from \in DOMAIN o}
Convert(C, o)  ==
  [p \in {a.to : a \in Assigned(C, o)} |-> o[(CHOOSE a \in Assigned(C, o) : a.to = p).from]]

-----------------------------------------------------------------------------
(* From v1beta1 to v1beta2.                                                *)

convertCertSecretsTo == Copy({"secretName", "certificateKey"})

convertEventTemplatesTo == Copy({"configMapName", "filename"})

convertStorageOptionsTo ==
  Nest("pvc", Copy({"spec", "annotations", "labels"}))
    \union Nest("emptyDir", Copy({"enabled", "medium", "sizeLimit"}))

convertServiceConfigTo == Copy({"serviceType", "annotations", "labels"})

convertServiceOptionsTo ==
  Nest("coreConfig", Copy({"httpPort"}) \union convertServiceConfigTo)
    \union Nest("reportsConfig", Copy({"httpPort"}) \union convertServiceConfigTo)

convertNetworkConfigTo == Copy({"ingressSpec", "annotations", "labels"})

convertNetworkOptionsTo == Nest("coreConfig", convertNetworkConfigTo)

convertSchedulingOptionsTo ==
  Copy({"nodeSelector", "tolerations"})
    \union Nest("affinity", Copy({"nodeAffinity", "podAffinity", "podAntiAffinity"}))

convertReportOptionsTo ==
  Copy({"replicas", "resources", "subProcessMaxHeapSize"})
    \union Nest("securityOptions", Copy({"podSecurityContext", "reportsSecurityContext"}))
    \union Nest("schedulingOptions", convertSchedulingOptionsTo)

convertJmxCacheOptionsTo == Copy({"targetCacheSize", "targetCacheTTL"})

convertResourceOptionsTo ==
  Copy({"coreResources", "dataSourceResources", "grafanaResources"})

convertSecurityOptionsTo ==
  Copy({"podSecurityContext", "coreSecurityContext", "dataSourceSecurityContext",
        "grafanaSecurityContext"})

convertTargetDiscoveryTo ==
  Rename("builtInDiscoveryDisabled", "disableBuiltInDiscovery")
    \union Copy({"disableBuiltInPortNames", "discoveryPortNames",
             "disableBuiltInPortNumbers", "discoveryPortNumbers"})

convertDatabaseOptionsTo == Rename("databaseSecretName", "secretName")

convertResourceMetadataTo == Copy({"annotations", "labels"})

convertOperandMetadataTo ==
  Nest("deploymentMetadata", convertResourceMetadataTo)
    \union Nest("podMetadata", convertResourceMetadataTo)

convertSpecTo ==
  Copy({"enableCertManager"})
    \union Nest("trustedCertSecrets", convertCertSecretsTo)
    \union Nest("eventTemplates", convertEventTemplatesTo)
    \union Nest("storageOptions", convertStorageOptionsTo)
    \union Nest("serviceOptions", convertServiceOptionsTo)
    \union Nest("networkOptions", convertNetworkOptionsTo)
    \union Nest("reportOptions", convertReportOptionsTo)
    \union NestAs("jmxCacheOptions", "targetConnectionCacheOptions", convertJmxCacheOptionsTo)
    \union Nest("resources", convertResourceOptionsTo)
    \union Nest("securityOptions", convertSecurityOptionsTo)
    \union Nest("schedulingOptions", convertSchedulingOptionsTo)
    \union Nest("targetDiscoveryOptions", convertTargetDiscoveryTo)
    \union NestAs("jmxCredentialsDatabaseOptions", "databaseOptions", convertDatabaseOptionsTo)
    \union Nest("operandMetadata", convertOperandMetadataTo)

convertStatusTo == Copy({"applicationUrl", "conditions"})

\* A v1beta1 Cryostat monitors its own namespace.
ConvertTo(src, namespace) ==
  [spec             |-> Convert(convertSpecTo, src.spec),
   status           |-> Convert(convertStatusTo, src.status),
   targetNamespaces |-> {namespace},
   statusNamespaces |-> {namespace}]

-----------------------------------------------------------------------------
(* From v1beta2 to v1beta1.                                                *)

convertCertSecretsFrom == Copy({"secretName", "certificateKey"})

convertEventTemplatesFrom == Copy({"configMapName", "filename"})

convertStorageOptionsFrom ==
  Nest("pvc", Copy({"spec", "annotations", "labels"}))
    \union Nest("emptyDir", Copy({"enabled", "medium", "sizeLimit"}))

convertServiceConfigFrom == Copy({"serviceType", "annotations", "labels"})

convertServiceOptionsFrom ==
  Nest("coreConfig", Copy({"httpPort"}) \union convertServiceConfigFrom)
    \union Nest("reportsConfig", Copy({"httpPort"}) \union convertServiceConfigFrom)

convertNetworkConfigFrom == Copy({"ingressSpec", "annotations", "labels"})

convertNetworkOptionsFrom == Nest("coreConfig", convertNetworkConfigFrom)

convertSchedulingOptionsFrom ==
  Copy({"nodeSelector", "tolerations"})
    \union Nest("affinity", Copy({"nodeAffinity", "podAffinity", "podAntiAffinity"}))

convertReportOptionsFrom ==
  Copy({"replicas", "resources", "subProcessMaxHeapSize"})
    \union Nest("securityOptions", Copy({"podSecurityContext", "reportsSecurityContext"}))
    \union Nest("schedulingOptions", convertSchedulingOptionsFrom)

convertJmxCacheOptionsFrom == Copy({"targetCacheSize", "targetCacheTTL"})

convertResourceOptionsFrom ==
  Copy({"coreResources", "dataSourceResources", "grafanaResources"})

convertSecurityOptionsFrom ==
  Copy({"podSecurityContext", "coreSecurityContext", "dataSourceSecurityContext",
        "grafanaSecurityContext"})

\* Mutant: names and numbers are mixed up.
convertTargetDiscoverySwapped ==
  Rename("disableBuiltInDiscovery", "builtInDiscoveryDisabled")
    \union Rename("disableBuiltInPortNumbers", "disableBuiltInPortNames")
    \union Rename("disableBuiltInPortNames", "disableBuiltInPortNumbers")
    \union Copy({"discoveryPortNames", "discoveryPortNumbers"})

convertTargetDiscoveryFrom ==
  Rename("disableBuiltInDiscovery", "builtInDiscoveryDisabled")
    \union Copy({"disableBuiltInPortNames", "discoveryPortNames",
             "disableBuiltInPortNumbers", "discoveryPortNumbers"})

convertDatabaseOptionsFrom == Rename("secretName", "databaseSecretName")

convertResourceMetadataFrom == Copy({"annotations", "labels"})

convertOperandMetadataFrom ==
  Nest("deploymentMetadata", convertResourceMetadataFrom)
    \union Nest("podMetadata", convertResourceMetadataFrom)

convertSpecFrom ==
  Copy({"enableCertManager"})
    \union Nest("trustedCertSecrets", convertCertSecretsFrom)
    \union Nest("eventTemplates", convertEventTemplatesFrom)
    \union Nest("storageOptions", convertStorageOptionsFrom)
    \union Nest("serviceOptions", convertServiceOptionsFrom)
    \union Nest("networkOptions", convertNetworkOptionsFrom)
    \union Nest("reportOptions", convertReportOptionsFrom)
    \union NestAs("targetConnectionCacheOptions", "jmxCacheOptions", convertJmxCacheOptionsFrom)
    \union Nest("resources", convertResourceOptionsFrom)
    \union Nest("securityOptions", convertSecurityOptionsFrom)
    \union Nest("schedulingOptions", convertSchedulingOptionsFrom)
    \union Nest("targetDiscoveryOptions", convertTargetDiscoveryFrom)
    \union NestAs("databaseOptions", "jmxCredentialsDatabaseOptions", convertDatabaseOptionsFrom)
    \union Nest("operandMetadata", convertOperandMetadataFrom)

convertStatusFrom == Copy({"applicationUrl", "conditions"})

ConvertFrom(src) ==
  [spec   |-> Convert(convertSpecFrom, src.spec),
   status |-> Convert(convertStatusFrom, src.status)]
=============================================================================
