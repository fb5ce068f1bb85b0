---------------------------- MODULE MCPcfPolicy ----------------------------
EXTENDS PcfPolicy
MCSupiOf == [p \in Policy |-> CHOOSE s \in Supi : TRUE]
=============================================================================
