-------------------------- MODULE MCConnectorRefresh --------------------------
(***************************************************************************)
(* Model values for ConnectorRefresh.                                      *)
(***************************************************************************)
EXTENDS ConnectorRefresh, TLC

CONSTANTS s1, s2, c1, c2

TwoProcesses == {s1, s2}
OneConnector == {c1}
TwoConnectors == {c1, c2}

\* Processes and connectors are interchangeable in every safety property.
RefreshSymmetry == Permutations(Processes) \cup Permutations(Connectors)
=============================================================================
