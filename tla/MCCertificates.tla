--------------------------- MODULE MCCertificates ---------------------------
EXTENDS Certificates

\* Users delete the agent's secret, its copy, or the CA's secret.
DeletedSecrets == {<<"install", "app">>, <<"app", "app">>, <<"install", "caNew">>}
=============================================================================
