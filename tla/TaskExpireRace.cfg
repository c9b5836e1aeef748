SPECIFICATION Spec
CONSTANTS
  t1 = t1
  t2 = t2
  r1 = r1
  r2 = r2
  r3 = r3
  Task = {t1}
  Legacy = {}
  Runner = {r1, r2, r3}
  Nobody = Nobody
  NoTask = NoTask
  Faults = {"crash"}
INVARIANT HeartbeatKeepsTask
