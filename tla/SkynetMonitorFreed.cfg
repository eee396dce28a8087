SPECIFICATION Spec
CONSTANTS
  Worker = {w1, w2}
  MaxMessages = 2
  Victims = {"main"}
INVARIANTS
  MonitorOutlivesItsUsers
