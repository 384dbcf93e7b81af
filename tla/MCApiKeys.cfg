CONSTANTS
  Ids = {customer, partner}
  Runs = {p1, p2}
  MaxReloads = 2
  None = None
  Rpm = 1
  MaxSecrets = 3
SPECIFICATION Spec
SYMMETRY Symmetric
CONSTRAINT Unspoilt
CHECK_DEADLOCK FALSE
INVARIANTS FileSound RetiredRefused QuotaHeld
