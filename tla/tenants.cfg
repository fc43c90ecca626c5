\* The accounts and the organizations together.
SPECIFICATION Spec
CONSTANTS
  ann = ann
  bob = bob
  gh = gh
  gh2 = gh2
  gg = gg
  Emails = {ann, bob}
  Passwords = {pw1, pw2}
  Idents = {gh, gh2, gg}
  SessionIds = {x1, x2}
  ResetTokens = {t1}
  InviteTokens = {i1}
  OrgIds = {o0, o1}
  DefaultOrg = o0
  ProviderOf <- MCProviderOf
  Slots = {s1, s2}
  MaxFails = 1
  MaxRequests = 3
  MaxApps = 1
  None = None
INVARIANTS GuessBound OldPasswordSessions AtMostOneOwner
INVARIANTS VerifiedLink
PROPERTIES LastOwnerLostOnlyToRace OrgOwnerLostOnlyToRace RedeemedOnce
SYMMETRY MCSymmetry
CHECK_DEADLOCK FALSE
