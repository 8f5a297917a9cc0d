CONSTANTS
  NumFindings = 4
  Worst <- Verdict4
  Protected = {4}
  MaxPicks = 2
SPECIFICATION Spec
INVARIANTS TypeOK SelectionIsMarked NothingUnasked ProtectedRefused AuditTrail
