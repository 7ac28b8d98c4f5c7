SPECIFICATION FairSpec
CONSTANTS
  Deployments = {d1}
  Profiles = {a}
  None = None
  Prior = Prior
  Pollers = {p1}
  Services = {"oxidns"}
  MaxRebinds = 0
  MaxCrashes = 1
CHECK_DEADLOCK FALSE
PROPERTY PublicationResolves
