------------------------ MODULE MCTargetNamespaces ------------------------
EXTENDS TargetNamespaces
=============================================================================
