---------------------------- MODULE V1Beta2Types ----------------------------
(***************************************************************************)
(* The fields of a v1beta2 Cryostat, the version that is stored            *)
(* (api/v1beta2/cryostat_types.go).                                        *)
(***************************************************************************)
EXTENDS FieldPaths

ResourceMetadata == Fields({"annotations", "labels"})

OperandMetadata ==
  Struct("deploymentMetadata", ResourceMetadata) \union Struct("podMetadata", ResourceMetadata)

ResourceConfigList ==
  Fields({"authProxyResources", "coreResources", "dataSourceResources", "grafanaResources",
          "databaseResources", "objectStorageResources", "agentProxyResources"})

PersistentVolumeClaimConfig == Fields({"spec"}) \union ResourceMetadata

EmptyDirConfig == Fields({"enabled", "medium", "sizeLimit"})

StorageConfiguration ==
  Struct("pvc", PersistentVolumeClaimConfig) \union Struct("emptyDir", EmptyDirConfig)

LegacyStorageConfiguration ==
  Struct("pvc", PersistentVolumeClaimConfig) \union Struct("emptyDir", EmptyDirConfig)

StorageConfigurations ==
  Struct("database", StorageConfiguration) \union Struct("objectStorage", StorageConfiguration)
    \union LegacyStorageConfiguration

ReportsSecurityOptions == Fields({"podSecurityContext", "reportsSecurityContext"})

Affinity == Fields({"nodeAffinity", "podAffinity", "podAntiAffinity"})

SchedulingConfiguration ==
  Fields({"nodeSelector", "tolerations"}) \union Struct("affinity", Affinity)

ReportConfiguration ==
  Fields({"replicas", "resources", "subProcessMaxHeapSize"})
    \union Struct("securityOptions", ReportsSecurityOptions)
    \union Struct("schedulingOptions", SchedulingConfiguration)

ServiceConfig == Fields({"serviceType"}) \union ResourceMetadata

CoreServiceConfig == Fields({"httpPort"}) \union ServiceConfig

ReportsServiceConfig == Fields({"httpPort"}) \union ServiceConfig

DatabaseServiceConfig == Fields({"databasePort"}) \union ServiceConfig

StorageServiceConfig == Fields({"httpPort"}) \union ServiceConfig

AgentGatewayServiceConfig == Fields({"httpPort"}) \union ServiceConfig

AgentCallbackServiceConfig == ResourceMetadata

ServiceConfigList ==
  UNION {Struct("coreConfig", CoreServiceConfig),
         Struct("reportsConfig", ReportsServiceConfig),
         Struct("databaseConfig", DatabaseServiceConfig),
         Struct("storageConfig", StorageServiceConfig),
         Struct("agentGatewayConfig", AgentGatewayServiceConfig),
         Struct("agentCallbackConfig", AgentCallbackServiceConfig)}

NetworkPolicyConfig == Fields({"disabled", "ingressDisabled", "egressEnabled"})

NetworkPoliciesList ==
  UNION {Struct(c, NetworkPolicyConfig) :
           c \in {"coreConfig", "reportsConfig", "databaseConfig", "storageConfig"}}

NetworkConfiguration == Fields({"externalHost", "ingressSpec"}) \union ResourceMetadata

NetworkConfigurationList == Struct("coreConfig", NetworkConfiguration)

TargetConnectionCacheOptions == Fields({"targetCacheSize", "targetCacheTTL"})

CertificateSecret == Fields({"secretName", "configMapName", "certificateKey"})

DeclarativeCredential == Fields({"secretName"})

ProbeTemplateConfigMap == Fields({"configMapName", "filename"})

TemplateConfigMap == Fields({"configMapName", "filename"})

AutomatedRuleConfigMap == Fields({"configMapName", "filename"})

OpenShiftSSOConfig == Fields({"disable", "accessReview"})

SecretFile == Fields({"secretName", "filename"})

AuthorizationOptions ==
  Struct("openShiftSSO", OpenShiftSSOConfig) \union Struct("basicAuth", SecretFile)

SecurityOptions ==
  Fields({"podSecurityContext", "authProxySecurityContext", "coreSecurityContext",
          "dataSourceSecurityContext", "grafanaSecurityContext", "storageSecurityContext",
          "databaseSecurityContext", "agentProxySecurityContext"})

TargetDiscoveryOptions ==
  Fields({"disableBuiltInDiscovery", "disableBuiltInPortNames", "discoveryPortNames",
          "disableBuiltInPortNumbers", "discoveryPortNumbers"})

DatabaseOptions == Fields({"secretName"})

ObjectStorageProviderOptions ==
  Fields({"url", "useVirtualHostAccess", "disablePresignedFileTransfers",
          "disablePresignedDownloads", "region", "tlsTrustAll", "metadataMode"})

StorageBucketNameOptions ==
  Fields({"archivedRecordings", "archivedReports", "eventTemplates",
          "jmcAgentProbeTemplates", "heapDumps", "threadDumps", "metadata"})

ObjectStorageOptions ==
  Fields({"secretName"}) \union Struct("provider", ObjectStorageProviderOptions)
    \union Struct("storageBucketNameOptions", StorageBucketNameOptions)

AgentOptions == Fields({"disableHostnameVerification", "allowInsecure", "resources"})

LoggingOptions == Fields({"coreLogLevel"})

\* Spec and status without their target namespaces, which are kept on their own.
CryostatSpec ==
  UNION {Fields({"enableCertManager", "enableAudit"}),
         Struct("trustedCertSecrets", CertificateSecret),
         Struct("automatedRules", AutomatedRuleConfigMap),
         Struct("eventTemplates", TemplateConfigMap),
         Struct("probeTemplates", ProbeTemplateConfigMap),
         Struct("declarativeCredentials", DeclarativeCredential),
         Struct("storageOptions", StorageConfigurations),
         Struct("serviceOptions", ServiceConfigList),
         Struct("networkPolicies", NetworkPoliciesList),
         Struct("networkOptions", NetworkConfigurationList),
         Struct("reportOptions", ReportConfiguration),
         Struct("targetConnectionCacheOptions", TargetConnectionCacheOptions),
         Struct("resources", ResourceConfigList),
         Struct("authorizationOptions", AuthorizationOptions),
         Struct("securityOptions", SecurityOptions),
         Struct("schedulingOptions", SchedulingConfiguration),
         Struct("targetDiscoveryOptions", TargetDiscoveryOptions),
         Struct("databaseOptions", DatabaseOptions),
         Struct("objectStorageOptions", ObjectStorageOptions),
         Struct("operandMetadata", OperandMetadata),
         Struct("agentOptions", AgentOptions),
         Struct("loggingOptions", LoggingOptions)}

CryostatStatus == Fields({"conditions", "applicationUrl", "storageSecret", "databaseSecret"})

\* The rule on CertificateSecret: exactly one of secretName and configMapName.
CertificateSecretRule(fields) ==
  LET cert(f) == <<"trustedCertSecrets", f>> \in DOMAIN fields
  IN  <<"trustedCertSecrets">> \in DOMAIN fields => cert("secretName") # cert("configMapName")
=============================================================================
