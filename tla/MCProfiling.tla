----------------------------- MODULE MCProfiling -----------------------------
EXTENDS Profiling, TLC

Symmetric == Permutations(Clients)
=============================================================================
