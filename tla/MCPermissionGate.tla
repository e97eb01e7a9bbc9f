-------------------------- MODULE MCPermissionGate --------------------------
EXTENDS PermissionGateProps, TLC
=============================================================================
