\* One key, more requests at once than there are in-flight slots.
SPECIFICATION Spec
CONSTANTS
  Keys = {k1}
  Apps = {a1}
  AppOf <- MCAppOf
  Slots = {s1, s2, s3}
  MaxPermits = 2
  Price = 2
  Charges = {3}
  MaxCharge = 3
  Quotas = {2, 6}
  Rpms = {1}
  MaxRpm = 1
  Minute = 2
  MaxTicks = 2
  MaxRequests = 3
  MaxRestarts = 1
  None = None
INVARIANTS QuotaExact QuotaOverrun RateBound
SYMMETRY MCSymmetry
CHECK_DEADLOCK FALSE
