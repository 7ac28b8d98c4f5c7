SPECIFICATION Spec
INVARIANT DiscoveryServes
CHECK_DEADLOCK FALSE
