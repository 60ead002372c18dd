SPECIFICATION FairSpec
CONSTANTS
  b = b
  p = p
  q = q
  b1 = b1
  s1 = s1
  k1 = k1
  Clients = {b, p}
  identityOf <- MCidentityOf
  kindOf <- MCkindOf
  Identities = {b1, s1}
  Builtins = {b1}
  Kinds = {k1}
  Tokens = {t1, t2, t3, t4, t5, t6}
  Credentials = {c1}
  TTL = 3
  HB = 1
  RT = 1
  NoOwner = NoOwner
  NoToken = NoToken
  MaxFaults = 2
INVARIANT
  OneServerPerKind
PROPERTIES
  KindServed
