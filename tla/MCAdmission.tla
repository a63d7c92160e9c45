---------------------------- MODULE MCAdmission ----------------------------
EXTENDS Admission, TLC

\* Fields that both versions have under one name or under two, that only one of
\* them has, and that the conversion passes over.
SampledFields ==
  {<<"enableAudit">>, <<"maxWsConnections">>,
   <<"trustedCertSecrets">>, <<"trustedCertSecrets", "secretName">>,
   <<"trustedCertSecrets", "configMapName">>,
   <<"jmxCredentialsDatabaseOptions">>,
   <<"jmxCredentialsDatabaseOptions", "databaseSecretName">>,
   <<"databaseOptions">>, <<"databaseOptions", "secretName">>,
   <<"securityOptions">>, <<"securityOptions", "storageSecurityContext">>}

Sampled(schema) == schema \intersect SampledFields

SomeV1Objects == {Full(Sampled(V1!CryostatSpec))}

\* New clients take trusted certificates from a config map.
SomeV2Objects ==
  {Full(Sampled(V2!CryostatSpec) \ {<<"trustedCertSecrets", "secretName">>})}

Symmetry == Permutations(Users)
=============================================================================
