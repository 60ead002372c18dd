SPECIFICATION Spec
CONSTANTS
  b = b
  p = p
  q = q
  b1 = b1
  s1 = s1
  k1 = k1
  Clients = {p, q}
  identityOf <- MCidentityOf
  kindOf <- MCkindOf
  Identities = {s1}
  Builtins = {}
  Kinds = {k1}
  Tokens = {t1, t2, t3, t4, t5, t6}
  Credentials = {}
  TTL = 2
  HB = 1
  RT = 1
  NoOwner = NoOwner
  NoToken = NoToken
  MaxFaults = 2
PROPERTY
  ReleaseEndsOwnSession
