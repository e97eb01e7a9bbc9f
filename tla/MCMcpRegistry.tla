--------------------------- MODULE MCMcpRegistry ---------------------------
EXTENDS McpRegistryProps, TLC

ProcSymmetry == Permutations(Procs)
=============================================================================
