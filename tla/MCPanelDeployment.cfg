SPECIFICATION Spec
CONSTANTS
  Deployments = {d1, d2}
  Profiles = {a, b}
  None = None
  Prior = Prior
  Pollers = {p1}
  Services = {"oxidns"}
  MaxRebinds = 1
  MaxCrashes = 1
INVARIANT OneUnfinished
INVARIANT OutcomeIsTrue
INVARIANT AppliedIsServed
PROPERTY OutcomeIsFinal
PROPERTY RolledBackOnRequest
SYMMETRY Symmetry
CONSTRAINT OneDisturbance
CHECK_DEADLOCK FALSE
