SPECIFICATION Spec
CONSTANTS
  c1 = c1 c2 = c2 c3 = c3 m1 = m1 m2 = m2 v1 = v1 v2 = v2 s1 = s1 s2 = s2 k1 = k1 k2 = k2
  None = None Off = Off
  Calls = {c1, c2, c3}
  Models = {m1, m2}
  Catalog = {m2}
  Values = {v1, v2}
  Fields = {"api_key", "key_secret"}
  Credentials = {"api_key"}
  Secrets = {s1, s2}
  Bodies <- MCBodies
  Env <- MCEnv
  Seals = {k1, k2}
  MaxFaults = 1
  MaxRestarts = 1
SYMMETRY Sym
INVARIANTS ServedAsStored
PROPERTIES SecretsMerged
CHECK_DEADLOCK FALSE
