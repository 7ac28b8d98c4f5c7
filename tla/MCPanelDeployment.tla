------------------------- MODULE MCPanelDeployment -------------------------
EXTENDS PanelDeployment, TLC

Symmetry == Permutations(Deployments) \cup Permutations(Profiles)

\* Bound: a behaviour has a change of profile or a death of the panel, not both.
OneDisturbance == rebinds + crashes <= 1
=============================================================================
