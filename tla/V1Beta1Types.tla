---------------------------- MODULE V1Beta1Types ----------------------------
(***************************************************************************)
(* The fields of a v1beta1 Cryostat (api/v1beta1/cryostat_types.go).       *)
(***************************************************************************)
EXTENDS FieldPaths

ResourceMetadata == Fields({"annotations", "labels"})

OperandMetadata ==
  Struct("deploymentMetadata", ResourceMetadata) \union Struct("podMetadata", ResourceMetadata)

ResourceConfigList == Fields({"coreResources", "dataSourceResources", "grafanaResources"})

PersistentVolumeClaimConfig == Fields({"annotations", "labels", "spec"})

EmptyDirConfig == Fields({"enabled", "medium", "sizeLimit"})

StorageConfiguration ==
  Struct("pvc", PersistentVolumeClaimConfig) \union Struct("emptyDir", EmptyDirConfig)

ReportsSecurityOptions == Fields({"podSecurityContext", "reportsSecurityContext"})

Affinity == Fields({"nodeAffinity", "podAffinity", "podAntiAffinity"})

SchedulingConfiguration ==
  Fields({"nodeSelector", "tolerations"}) \union Struct("affinity", Affinity)

ReportConfiguration ==
  Fields({"replicas", "resources", "subProcessMaxHeapSize"})
    \union Struct("securityOptions", ReportsSecurityOptions)
    \union Struct("schedulingOptions", SchedulingConfiguration)

ServiceConfig == Fields({"serviceType", "annotations", "labels"})

CoreServiceConfig == Fields({"httpPort", "jmxPort"}) \union ServiceConfig

GrafanaServiceConfig == Fields({"httpPort"}) \union ServiceConfig

StorageServiceConfig == Fields({"httpPort"}) \union ServiceConfig

ReportsServiceConfig == Fields({"httpPort"}) \union ServiceConfig

ServiceConfigList ==
  Struct("coreConfig", CoreServiceConfig) \union Struct("grafanaConfig", GrafanaServiceConfig)
    \union Struct("reportsConfig", ReportsServiceConfig)
    \union Struct("storageConfig", StorageServiceConfig)

NetworkConfiguration == Fields({"ingressSpec", "annotations", "labels"})

NetworkConfigurationList ==
  UNION {Struct(c, NetworkConfiguration) : c \in {"coreConfig", "commandConfig", "grafanaConfig"}}

JmxCacheOptions == Fields({"targetCacheSize", "targetCacheTTL"})

CertificateSecret == Fields({"secretName", "certificateKey"})

TemplateConfigMap == Fields({"configMapName", "filename"})

AuthorizationProperties == Fields({"clusterRoleName", "configMapName", "filename"})

SecurityOptions ==
  Fields({"podSecurityContext", "coreSecurityContext", "dataSourceSecurityContext",
          "grafanaSecurityContext", "storageSecurityContext", "databaseSecurityContext"})

TargetDiscoveryOptions ==
  Fields({"builtInDiscoveryDisabled", "disableBuiltInPortNames", "discoveryPortNames",
          "disableBuiltInPortNumbers", "discoveryPortNumbers"})

JmxCredentialsDatabaseOptions == Fields({"databaseSecretName"})

CryostatSpec ==
  UNION {Fields({"minimal", "enableCertManager", "maxWsConnections"}),
         Struct("trustedCertSecrets", CertificateSecret),
         Struct("eventTemplates", TemplateConfigMap),
         Struct("storageOptions", StorageConfiguration),
         Struct("serviceOptions", ServiceConfigList),
         Struct("networkOptions", NetworkConfigurationList),
         Struct("reportOptions", ReportConfiguration),
         Struct("jmxCacheOptions", JmxCacheOptions),
         Struct("resources", ResourceConfigList),
         Struct("authProperties", AuthorizationProperties),
         Struct("securityOptions", SecurityOptions),
         Struct("schedulingOptions", SchedulingConfiguration),
         Struct("targetDiscoveryOptions", TargetDiscoveryOptions),
         Struct("jmxCredentialsDatabaseOptions", JmxCredentialsDatabaseOptions),
         Struct("operandMetadata", OperandMetadata)}

CryostatStatus == Fields({"conditions", "grafanaSecret", "applicationUrl"})
=============================================================================
