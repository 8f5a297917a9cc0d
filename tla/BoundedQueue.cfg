CONSTANTS
  Pushers = {p1, p2}
  Poppers = {c1, c2, c3}
  Items = {v1, v2, v3}
  Cap = 1
SPECIFICATION Spec
INVARIANTS TypeOK Conserved NoLostWakeup EndedMeansDrained
PROPERTIES ImplementsFifo AcceptedIsDelivered CloseReleases
