SPECIFICATION Spec
CONSTANTS
  Replicas = {r1, r2}
  Jobs = {j1}
  Ticks = {t1, t2}
  Clients = {c1, c2, c3}
  Failures = {}
  MaxFaults = 0
PROPERTIES
  SomeoneLeads
