------------------------- MODULE MCConnectorClient --------------------------
EXTENDS ConnectorClient, TLC

ProcSymmetry == Permutations(Procs)
=============================================================================
